---------------------------- MODULE Spec2Model ----------------------------
(***************************************************************************)
(* nudge: peer-to-peer file transfer over UDP.                             *)
(*                                                                         *)
(* The sub-systems are modelled each with its own specification:          *)
(*   SpecRdt    the reliable datagram transport (src/reliable_udp.rs)      *)
(*              driven by the sender and receiver transfer loops           *)
(*              (commands/send_command.rs, commands/get_command.rs) over   *)
(*              a datagram channel that may lose, duplicate and delay;     *)
(*   SpecDriver the same drivers over the range of their options, on a     *)
(*              channel without faults;                                    *)
(*   SpecApi    the transport under any caller of write_and_flush;         *)
(*   SpecPunch  the hole punch (utils/socket.rs) and what the drivers do   *)
(*              with its result;                                           *)
(*   SpecPunchFair the same with the scheduling the 1 s timeouts give;     *)
(*   SpecRelay  the rendezvous relay (commands/server_command.rs);         *)
(*   SpecEnd    the end of a session, with the scheduling of the code;     *)
(*   SpecNoise  the transport on a channel that also carries datagrams     *)
(*              that are not its own;                                      *)
(*   SpecCodec  the control-message codec (utils/serialize.rs);            *)
(*   SpecOutFile the choice of the output path (commands/get_command.rs);  *)
(*   SpecMinter the passphrase minter (utils/passphrase.rs).               *)
(***************************************************************************)
EXTENDS Integers, Sequences, FiniteSets, TLC

(***************************************************************************)
(* Bounds of the model.                                                    *)
(***************************************************************************)
\* Number of distinct sequence numbers.  The code uses u16 (65536 values);
\* the model scales the width down so that the wrap is reached.  Every
\* place where the code writes 0xffff reads SeqMod - 1 here.
SeqMod == 3
\* Longest source file, in bytes.
MaxFile == 4
\* Capacity of a socket queue, in datagrams.
MaxQueue == 3
\* Number of channel faults (loss, duplication, delay) in one run.
MaxFaults == 1
\* Last tick of the relay's clock.
MaxClock == 1

(***************************************************************************)
(* reliable_udp.rs: PacketType, in declaration order (`as u8`).            *)
(***************************************************************************)
Write == 0
Acknowledgment == 1
ResendRequest == 2
EndSession == 3

\* Time since wait_for_acknowledgment's start_time, in the classes the code
\* tests: 0 (at most 5 s), After5s (more than 5 s), After10s (more than 10 s).
After5s == 1
After10s == 2

VARIABLES
  \* ---- data path: sender (send_command.rs send_file, ReliableUdpSocket)
  src_file,               \* bytes of the file being sent
  chunk_size,             \* [send |-> send_opts.chunk_size, get |-> get_opts.chunk_size]
  file_pos,               \* bytes of src_file already read by the sender
  sent_packets_count,     \* ReliableUdpSocket.sent_packets_count (sender)
  last_transmitted,       \* ReliableUdpSocket.last_transmitted (sender)
  snd_pc,                 \* "send_file" | "write_and_flush" | "end" | "done"
  wait,                   \* wait_for_acknowledgment's locals
  \* ---- data path: receiver (get_command.rs run, ReliableUdpSocket)
  received_packets_count, \* ReliableUdpSocket.received_packets_count (receiver)
  is_catching_up,         \* read()'s local flag
  rcv_pc,                 \* "read" | "done"
  out_file,               \* bytes written to the output file
  \* ---- data path: the two directions of the connected UDP sockets
  s2r, r2s,               \* datagrams queued towards receiver / sender
  held,                   \* datagrams the network holds back (delayed copies)
  faults,                 \* [drop, dup, delay]: faults injected so far,
                          \* lost: the kinds of the datagrams dropped
  ev,                     \* the last step taken on the data path
  \* ---- receiver driver (get_command.rs run)
  skip_hash,              \* get_opts.skip_hash
  recv_ack,               \* the FileInfo received in X2R_AFI: file_size, file_hash
  old_file,               \* the output file on disk after set_len(file_size)
  get_ret,                \* what run returned, once it has
  \* ---- hole punch (utils/socket.rs init_socket, then the drivers)
  peer,                   \* per driver: where it is, what init_socket returned
  inbox,                  \* per driver: lengths of the datagrams that arrived
  \* ---- relay (server_command.rs run)
  client_map,             \* HashMap<Passphrase, FileInfo>
  relay_pc,               \* "recv_from" (in the loop) | "panicked"
  now,                    \* current_unix_millis(), in clock ticks
  req,                    \* the datagram handled last and its source
  replies,                \* the datagrams sent while handling it
  handed_off,             \* passphrases claimed and not minted again since
  \* ---- a function of the control path called on its own
  fn_in,                  \* the arguments of the call
  fn_out                  \* what the call returned, once it has

rdtVars == <<src_file, chunk_size, file_pos, sent_packets_count,
             last_transmitted, snd_pc, wait, received_packets_count,
             is_catching_up, rcv_pc, out_file, s2r, r2s, held, faults, ev>>

relayVars == <<client_map, relay_pc, now, req, replies, handed_off>>

getVars == <<skip_hash, recv_ack, old_file, get_ret>>

hpVars == <<peer, inbox>>

fnVars == <<fn_in, fn_out>>

vars == <<rdtVars, relayVars, getVars, hpVars, fnVars>>

(***************************************************************************)
(* Helpers.                                                                *)
(***************************************************************************)
Min(a, b) == IF a <= b THEN a ELSE b

RemoveAt(q, i) == SubSeq(q, 1, i - 1) \o SubSeq(q, i + 1, Len(q))

\* `x as u16`
AsU16(x) == x % SeqMod

\* A framed datagram: [seq_hi, seq_lo, kind, data...].
Datagram(seq, kind, data) == [seq |-> seq, kind |-> kind, data |-> data]

\* A datagram that is not one of the transport's: only its length and, when
\* it has that many bytes, its sequence and kind bytes matter.
Foreign(len, seq, kind) == [seq |-> seq, kind |-> kind, data |-> <<>>, len |-> len]

\* Length on the wire: 3 header bytes plus the payload.
DatagramLen(d) == IF "len" \in DOMAIN d THEN d.len ELSE 3 + Len(d.data)

NoDatagram == [seq |-> 0, kind |-> Write, data |-> <<>>]

NoWait == [packet_index |-> 0, exit_on_lost |-> FALSE, elapsed |-> 0]

\* The last step on the data path: the operation, the datagram it consumed,
\* the datagrams it sent, how it ended, the bytes it handed to its caller,
\* the receiver's expected sequence before the step, the flush argument of a
\* write, and the time since start_time that a timed-out recv observed.
NoEvent == [op |-> "init", dg |-> NoDatagram, sent |-> <<>>, ret |-> "none",
            data |-> <<>>, recv_seq |-> 0, flush |-> FALSE, elapsed |-> 0]

Event(op, dg, sent, ret, data) ==
  [op |-> op, dg |-> dg, sent |-> sent, ret |-> ret, data |-> data,
   recv_seq |-> AsU16(received_packets_count), flush |-> FALSE, elapsed |-> 0]

\* The --chunk-size options of the two peers that are tried: equal, and a
\* receiver buffer smaller than the sender's chunk.
ChunkSizes == {[send |-> 1, get |-> 1], [send |-> 2, get |-> 2],
               [send |-> 2, get |-> 1]}

\* The source file: bytes 1, 2, ..., n (all distinct).
FileOfLen(n) == [i \in 1..n |-> i]


\* HashMap::insert / HashMap::remove on last_transmitted.
MapInsert(m, k, v) == [x \in DOMAIN m \cup {k} |-> IF x = k THEN v ELSE m[x]]

MapRemove(m, k) == [x \in DOMAIN m \ {k} |-> m[x]]

EmptyMap == [x \in {} |-> NoDatagram]

(***************************************************************************)
(* reliable_udp.rs, sender side.                                           *)
(***************************************************************************)
\* internal_write's and read's size limit, 0xfffc.
PayloadLimit == 65532

\* A faulty variant of ExceedsLimit: the limit itself is refused too.
ExceedsTightLimit(len) == len >= PayloadLimit

\* internal_write: `data.len() > 0xfffc`; read: `buffer.len() > 0xfffc`.
ExceedsLimit(len) == len > PayloadLimit

\* A faulty variant of WaitForAck: no wait at the wrap boundary.
WaitsOnlyOnFlush(packet_index, flush) == flush

\* wait_for_acknowledgment: `packet_index == 0xffff || flush`.
WaitForAck(packet_index, flush) == packet_index = SeqMod - 1 \/ flush

\* A faulty variant of NextPacketCount: a sequence number is skipped.
SkippingPacketCount(count) == count + 2

\* internal_write: `self.sent_packets_count += 1`.
NextPacketCount(count) == count + 1

\* send_file / get_command run: `(1024 * 25) / chunk_size`, the number of
\* chunks between two updates of the progress bar.
ProgressBytes == 25600

UpdateProgressRate(chunk) == ProgressBytes \div chunk

\* `current_progress % update_progress_rate` panics when the rate is 0.
ProgressPanics(chunk) == UpdateProgressRate(chunk) = 0

\* Where internal_write returns to: write_and_flush returns into send_file's
\* loop, which updates the progress; end() returns the socket and send_file
\* is over.
ReturnFrom(caller) ==
  IF caller = "end" THEN "done"
  ELSE IF ProgressPanics(chunk_size.send) THEN "panicked"
  ELSE "send_file"

\* internal_write -> transmit_packet -> wait_for_acknowledgment (entry).
\* The datagram takes sequence `sent_packets_count as u16`, the counter is
\* incremented, the datagram is sent and stored in last_transmitted, and the
\* acknowledgment wait is entered when flush is set or at the wrap boundary.
InternalWrite(data, packet_type, flush, exit_on_lost, caller) ==
  LET packet_index == AsU16(sent_packets_count)
      data_buffer  == Datagram(packet_index, packet_type, data)
  IN IF ExceedsLimit(Len(data))
     THEN /\ snd_pc' = "failed"
          /\ ev' = Event(caller, NoDatagram, <<>>, "DataPacketLimitExceeded", <<>>)
          /\ UNCHANGED <<sent_packets_count, s2r, last_transmitted, wait>>
     ELSE /\ Len(s2r) < MaxQueue
          /\ sent_packets_count' = NextPacketCount(sent_packets_count)
          /\ s2r' = Append(s2r, data_buffer)
          /\ last_transmitted' = MapInsert(last_transmitted, packet_index, data_buffer)
          /\ IF WaitForAck(packet_index, flush)
             THEN /\ snd_pc' = caller
                  /\ wait' = [packet_index |-> packet_index,
                              exit_on_lost |-> exit_on_lost, elapsed |-> 0]
             ELSE /\ snd_pc' = ReturnFrom(caller)
                  /\ wait' = NoWait
          /\ ev' = [Event(caller, data_buffer, <<data_buffer>>, "Ok", <<>>)
                      EXCEPT !.flush = flush]

\* send_file's loop, a non-empty file.read: write_and_flush(chunk, false, delay).
SndWrite ==
  /\ snd_pc = "send_file"
  /\ file_pos < Len(src_file)
  /\ LET bytes_read == Min(chunk_size.send, Len(src_file) - file_pos)
         chunk == SubSeq(src_file, file_pos + 1, file_pos + bytes_read)
     IN /\ file_pos' = file_pos + bytes_read
        /\ InternalWrite(chunk, Write, FALSE, FALSE, "write_and_flush")
  /\ UNCHANGED <<relayVars, getVars, hpVars, fnVars>>
  /\ UNCHANGED <<src_file, chunk_size, received_packets_count, is_catching_up,
                 rcv_pc, out_file, r2s, held, faults>>

\* send_file's loop at end of file: safe_connection.end(), that is
\* internal_write(&[], EndSession, true, true, 3000).
SndEnd ==
  /\ snd_pc = "send_file"
  /\ file_pos = Len(src_file)
  /\ InternalWrite(<<>>, EndSession, TRUE, TRUE, "end")
  /\ UNCHANGED <<relayVars, getVars, hpVars, fnVars>>
  /\ UNCHANGED <<src_file, chunk_size, file_pos, received_packets_count,
                 is_catching_up, rcv_pc, out_file, r2s, held, faults>>

InWait == snd_pc \in {"write_and_flush", "end"}

\* A faulty variant of AckEndsWait: any acknowledgment ends the wait.
AnyAckEndsWait(acknowledged_packet_id, packet_index) == TRUE

\* wait_for_acknowledgment: `acknowledged_packet_id == packet_index`.
AckEndsWait(acknowledged_packet_id, packet_index) == acknowledged_packet_id = packet_index

\* A faulty variant of HandleResendRequest: the datagram sent last is sent
\* again whatever sequence was asked for.
ResendLatest(packet_index, map) ==
  IF DOMAIN map = {} THEN <<>>
  ELSE <<map[CHOOSE k \in DOMAIN map : \A j \in DOMAIN map : j <= k]>>

\* handle_resend_request: the stored datagram of the requested sequence is
\* sent again when there is one; the result is what is sent.
HandleResendRequest(packet_index, map) ==
  IF packet_index \in DOMAIN map THEN <<map[packet_index]>> ELSE <<>>

\* socket.recv into wait_for_acknowledgment's 3-byte buffer: what recv
\* returns for datagram d (a longer datagram is cut to the buffer and the
\* rest of it is discarded).
RecvAck(d) == Min(DatagramLen(d), 3)

\* wait_for_acknowledgment, one iteration whose recv returned a datagram.
SndRecv ==
  /\ InWait
  /\ r2s # <<>>
  /\ LET d == Head(r2s)
         bytes_read == RecvAck(d)
     IN
     /\ r2s' = Tail(r2s)
     /\ IF bytes_read # 3
        THEN /\ ev' = Event("wait_recv", d, <<>>, "continue", <<>>)
             /\ UNCHANGED <<last_transmitted, snd_pc, wait, s2r>>
        ELSE IF d.kind = Acknowledgment
        THEN IF AckEndsWait(d.seq, wait.packet_index)
             THEN /\ last_transmitted' = EmptyMap
                  /\ snd_pc' = ReturnFrom(snd_pc)
                  /\ wait' = NoWait
                  /\ ev' = Event("wait_recv", d, <<>>, "acked", <<>>)
                  /\ UNCHANGED s2r
             ELSE /\ last_transmitted' = MapRemove(last_transmitted, d.seq)
                  /\ ev' = Event("wait_recv", d, <<>>, "continue", <<>>)
                  /\ UNCHANGED <<snd_pc, wait, s2r>>
        ELSE IF d.kind = ResendRequest
        THEN LET resent == HandleResendRequest(d.seq, last_transmitted)
             IN /\ Len(s2r) + Len(resent) <= MaxQueue
                /\ s2r' = s2r \o resent
                /\ ev' = Event("wait_recv", d, resent, "continue", <<>>)
                /\ UNCHANGED <<last_transmitted, snd_pc, wait>>
        ELSE /\ ev' = Event("wait_recv", d, <<>>, "continue", <<>>)
             /\ UNCHANGED <<last_transmitted, snd_pc, wait, s2r>>
  /\ UNCHANGED <<relayVars, getVars, hpVars, fnVars>>
  /\ UNCHANGED <<src_file, chunk_size, file_pos, sent_packets_count,
                 received_packets_count, is_catching_up, rcv_pc, out_file,
                 held, faults>>

\* A faulty variant of GivesUp: the wait of end() never gives up.
NeverGivesUp(elapsed, exit_on_lost) == FALSE

\* wait_for_acknowledgment: `current_unix_millis() - start_time > 5000 &&
\* exit_on_lost`.
GivesUp(elapsed, exit_on_lost) == elapsed >= After5s /\ exit_on_lost

\* A faulty variant of ProbeDue: the datagram is sent again at the first
\* recv that times out.
ProbesAtOnce(elapsed) == TRUE

\* wait_for_acknowledgment: `current_unix_millis() - start_time > 10000`.
ProbeDue(elapsed) == elapsed >= After10s

\* wait_for_acknowledgment, one iteration whose recv timed out (1 s without a
\* datagram).  The clock is read: the time since start_time is in some class
\* not below the one last observed.  Give up after 5 s when exit_on_lost;
\* after 10 s re-send the just-sent datagram and restart the timer.
SndTimeout ==
  /\ InWait
  /\ r2s = <<>>
  /\ \E elapsed \in wait.elapsed..After10s :
       IF GivesUp(elapsed, wait.exit_on_lost)
       THEN /\ snd_pc' = ReturnFrom(snd_pc)
            /\ wait' = NoWait
            /\ ev' = [Event("wait_timeout", NoDatagram, <<>>, "gave_up", <<>>)
                        EXCEPT !.elapsed = elapsed]
            /\ UNCHANGED s2r
       ELSE IF ProbeDue(elapsed)
       THEN IF wait.packet_index \in DOMAIN last_transmitted
            THEN /\ Len(s2r) < MaxQueue
                 /\ s2r' = Append(s2r, last_transmitted[wait.packet_index])
                 /\ wait' = [wait EXCEPT !.elapsed = 0]
                 /\ ev' = [Event("wait_timeout", NoDatagram,
                                 <<last_transmitted[wait.packet_index]>>, "resent", <<>>)
                             EXCEPT !.elapsed = elapsed]
                 /\ UNCHANGED snd_pc
            ELSE /\ snd_pc' = ReturnFrom(snd_pc)
                 /\ wait' = NoWait
                 /\ ev' = [Event("wait_timeout", NoDatagram, <<>>, "break", <<>>)
                             EXCEPT !.elapsed = elapsed]
                 /\ UNCHANGED s2r
       ELSE /\ wait' = [wait EXCEPT !.elapsed = elapsed]
            /\ ev' = [Event("wait_timeout", NoDatagram, <<>>, "continue", <<>>)
                        EXCEPT !.elapsed = elapsed]
            /\ UNCHANGED <<snd_pc, s2r>>
  /\ UNCHANGED <<relayVars, getVars, hpVars, fnVars>>
  /\ UNCHANGED <<src_file, chunk_size, file_pos, sent_packets_count,
                 last_transmitted, received_packets_count, is_catching_up,
                 rcv_pc, out_file, r2s, held, faults>>

(***************************************************************************)
(* reliable_udp.rs, receiver side.                                         *)
(***************************************************************************)
\* A faulty variant of ShouldAcknowledge: a datagram ahead of the expected
\* sequence is acknowledged too.
AcknowledgesAny(packet_id, expected) == TRUE

\* handle_packet: `packet_id <= self.received_packets_count as u16`.
ShouldAcknowledge(packet_id, expected) == packet_id <= expected

\* A faulty variant of IsExpected: a datagram ahead of the expected sequence
\* is accepted too.
AcceptsAhead(packet_id, expected) == packet_id >= expected

\* handle_packet: `packet_id == self.received_packets_count as u16`.
IsExpected(packet_id, expected) == packet_id = expected

\* handle_packet: `packet_id > self.received_packets_count as u16`.
IsAhead(packet_id, expected) == packet_id > expected

\* handle_packet: `packet_buffer[2] == PacketType::EndSession as u8`.
IsEndSession(kind) == kind = EndSession

\* handle_packet_drop: send [expected_hi, expected_lo, ResendRequest].
HandlePacketDrop(expected) == <<Datagram(expected, ResendRequest, <<>>)>>

\* handle_packet, for a datagram of bytes_read bytes with sequence packet_id:
\* the datagrams sent, the new counter, received_data.1, should_retry and
\* is_catching_up after the call.
HandlePacket(packet_id, kind, bytes_read, count, catching_up) ==
  LET expected == AsU16(count)
      ack == IF ShouldAcknowledge(packet_id, expected)
             THEN <<Datagram(packet_id, Acknowledgment, <<>>)>> ELSE <<>>
      accept == IsExpected(packet_id, expected)
      ahead == ~accept /\ IsAhead(packet_id, expected)
  IN [sent |-> ack \o (IF ahead THEN HandlePacketDrop(expected) ELSE <<>>),
      received_packets_count |-> IF accept THEN count + 1 ELSE count,
      len |-> IF accept THEN bytes_read - 3 ELSE 0,
      should_retry |-> ~(accept \/ IsEndSession(kind)),
      is_catching_up |-> catching_up \/ ahead]

\* socket.recv into packet_buffer (3 + buffer.len() bytes): a longer datagram
\* is cut to the buffer.
RecvInto(d, buffer_len) ==
  [bytes_read |-> Min(DatagramLen(d), 3 + buffer_len),
   data |-> SubSeq(d.data, 1, Min(Len(d.data), buffer_len))]

\* hash_file_and_seek: the BLAKE3 digest of the whole file in hex.  The
\* digest is kept symbolic: two digests are equal exactly when the contents
\* are (BLAKE3 is taken to be free of collisions).
HashFileAndSeek(file) == [blake3 |-> file]

\* AnonymousString: Some(digest) or None.
SomeHash(digest) == [some |-> TRUE, hex |-> digest]

NoHash == [some |-> FALSE, hex |-> HashFileAndSeek(<<>>)]

\* The output file on disk: opened without truncation and set to file_size
\* bytes, then written from the start with the payloads read so far.
DiskFile(written, old) == written \o SubSeq(old, Len(written) + 1, Len(old))

\* What get_command's run returns.
Returned(res, expected, actual) == [res |-> res, expected |-> expected, actual |-> actual]

Running == Returned("running", HashFileAndSeek(<<>>), HashFileAndSeek(<<>>))

\* A faulty variant of HashesDiffer: the check never fails.
NeverDiffer(expected_hash, actual_hash) == FALSE

\* get_command run: `expected_hash != actual_hash`.
HashesDiffer(expected_hash, actual_hash) == expected_hash # actual_hash

\* get_command run after its read loop: the hash check on the file on disk.
VerifyHash(file) ==
  IF skip_hash THEN Returned("Ok", HashFileAndSeek(<<>>), HashFileAndSeek(<<>>))
  ELSE IF ~recv_ack.file_hash.some
  THEN Returned("Ok", HashFileAndSeek(<<>>), HashFileAndSeek(<<>>))
  ELSE LET expected_hash == recv_ack.file_hash.hex
           actual_hash == HashFileAndSeek(file)
       IN IF HashesDiffer(expected_hash, actual_hash)
          THEN Returned("HashMismatch", expected_hash, actual_hash)
          ELSE Returned("Ok", expected_hash, actual_hash)

\* read() called by get_command's loop.  A buffer over the limit is refused
\* before anything is received.  Otherwise one iteration of read()'s loop on
\* a received datagram and, when read() returns, get_command's loop body:
\* stop on 0 bytes and verify the hash, else append to the file, update the
\* progress and call read() again.
RcvRecv ==
  /\ rcv_pc = "read"
  /\ ExceedsLimit(chunk_size.get) \/ s2r # <<>>
  /\ LET d == Head(s2r)
         got == RecvInto(d, chunk_size.get)
     IN IF ExceedsLimit(chunk_size.get)
        THEN /\ rcv_pc' = "failed"
             /\ get_ret' = Returned("BufferSizeLimitExceeded",
                                    HashFileAndSeek(<<>>), HashFileAndSeek(<<>>))
             /\ ev' = Event("read", NoDatagram, <<>>, "BufferSizeLimitExceeded", <<>>)
             /\ UNCHANGED <<s2r, r2s, received_packets_count, is_catching_up, out_file>>
        ELSE IF got.bytes_read < 3
        THEN /\ s2r' = Tail(s2r)
             /\ ev' = Event("read", d, <<>>, "continue", <<>>)
             /\ UNCHANGED <<r2s, received_packets_count, is_catching_up, rcv_pc,
                            out_file, get_ret>>
        ELSE LET h == HandlePacket(d.seq, d.kind, got.bytes_read,
                                   received_packets_count, is_catching_up)
                 payload == SubSeq(got.data, 1, h.len)
             IN /\ Len(r2s) + Len(h.sent) <= MaxQueue
                /\ s2r' = Tail(s2r)
                /\ r2s' = r2s \o h.sent
                /\ received_packets_count' = h.received_packets_count
                /\ IF h.should_retry
                   THEN /\ is_catching_up' = h.is_catching_up
                        /\ ev' = Event("read", d, h.sent, "continue", <<>>)
                        /\ UNCHANGED <<rcv_pc, out_file, get_ret>>
                   ELSE /\ is_catching_up' = FALSE
                        /\ out_file' = out_file \o payload
                        /\ rcv_pc' = IF h.len = 0 THEN "done"
                                      ELSE IF ProgressPanics(chunk_size.get) THEN "panicked"
                                      ELSE "read"
                        /\ get_ret' = IF h.len = 0
                                       THEN VerifyHash(DiskFile(out_file, old_file))
                                       ELSE IF ProgressPanics(chunk_size.get)
                                       THEN Returned("panicked", HashFileAndSeek(<<>>),
                                                     HashFileAndSeek(<<>>))
                                       ELSE get_ret
                        /\ ev' = Event("read", d, h.sent,
                                       IF h.len = 0 THEN "eof" ELSE "data", payload)
  /\ UNCHANGED <<relayVars, skip_hash, recv_ack, old_file, hpVars, fnVars>>
  /\ UNCHANGED <<src_file, chunk_size, file_pos, sent_packets_count,
                 last_transmitted, snd_pc, wait, held, faults>>

(***************************************************************************)
(* The network between the two connected sockets: it may lose a datagram,  *)
(* deliver an extra copy of one later, or hold one back and deliver it     *)
(* later (reordering).  At most MaxFaults faults are injected in a run.    *)
(***************************************************************************)
\* No fault injected yet.
NoFaults == [drop |-> 0, dup |-> 0, delay |-> 0, noise |-> 0, lost |-> {}]

FaultCount == faults.drop + faults.dup + faults.delay + faults.noise

Queue(ch) == IF ch = "s2r" THEN s2r ELSE r2s

SetQueue(ch, q) ==
  IF ch = "s2r" THEN s2r' = q /\ UNCHANGED r2s ELSE r2s' = q /\ UNCHANGED s2r

NetDrop ==
  /\ FaultCount < MaxFaults
  /\ \E ch \in {"s2r", "r2s"} : \E i \in 1..Len(Queue(ch)) :
       /\ SetQueue(ch, RemoveAt(Queue(ch), i))
       /\ faults' = [faults EXCEPT !.drop = @ + 1,
                                   !.lost = @ \cup {Queue(ch)[i].kind}]
  /\ UNCHANGED <<relayVars, getVars, hpVars, fnVars>>
  /\ UNCHANGED <<src_file, chunk_size, file_pos, sent_packets_count,
                 last_transmitted, snd_pc, wait, received_packets_count,
                 is_catching_up, rcv_pc, out_file, held, ev>>

NetDuplicate ==
  /\ FaultCount < MaxFaults
  /\ \E ch \in {"s2r", "r2s"} : \E i \in 1..Len(Queue(ch)) :
       held' = held \cup {[ch |-> ch, dg |-> Queue(ch)[i]]}
  /\ faults' = [faults EXCEPT !.dup = @ + 1]
  /\ UNCHANGED <<relayVars, getVars, hpVars, fnVars>>
  /\ UNCHANGED <<src_file, chunk_size, file_pos, sent_packets_count,
                 last_transmitted, snd_pc, wait, received_packets_count,
                 is_catching_up, rcv_pc, out_file, s2r, r2s, ev>>

NetDelay ==
  /\ FaultCount < MaxFaults
  /\ \E ch \in {"s2r", "r2s"} : \E i \in 1..Len(Queue(ch)) :
       /\ held' = held \cup {[ch |-> ch, dg |-> Queue(ch)[i]]}
       /\ SetQueue(ch, RemoveAt(Queue(ch), i))
  /\ faults' = [faults EXCEPT !.delay = @ + 1]
  /\ UNCHANGED <<relayVars, getVars, hpVars, fnVars>>
  /\ UNCHANGED <<src_file, chunk_size, file_pos, sent_packets_count,
                 last_transmitted, snd_pc, wait, received_packets_count,
                 is_catching_up, rcv_pc, out_file, ev>>

NetRelease ==
  /\ \E h \in held :
       /\ Len(Queue(h.ch)) < MaxQueue
       /\ held' = held \ {h}
       /\ SetQueue(h.ch, Append(Queue(h.ch), h.dg))
  /\ UNCHANGED <<relayVars, getVars, hpVars, fnVars>>
  /\ UNCHANGED <<src_file, chunk_size, file_pos, sent_packets_count,
                 last_transmitted, snd_pc, wait, received_packets_count,
                 is_catching_up, rcv_pc, out_file, faults, ev>>

\* Datagrams that reach a connected socket without being the transport's:
\* leftovers of the hole punch (1 or 2 bytes), and towards the sender also
\* 3-byte datagrams of another kind and longer datagrams whose third byte is
\* the kind of an ACK or of a RESEND.
ShortNoise == {Foreign(len, 0, Write) : len \in 1..2}

WaitNoise ==
  ShortNoise
  \cup {Datagram(seq, kind, <<>>) : seq \in 0..(SeqMod - 1), kind \in {Write, EndSession}}
  \cup {Foreign(4, seq, kind) : seq \in 0..(SeqMod - 1),
                                kind \in {Acknowledgment, ResendRequest}}

\* Such a datagram arrives at one of the two sockets.
NetNoise ==
  /\ FaultCount < MaxFaults
  /\ \/ \E d \in ShortNoise :
          /\ Len(s2r) < MaxQueue
          /\ s2r' = Append(s2r, d)
          /\ UNCHANGED r2s
     \/ \E d \in WaitNoise :
          /\ Len(r2s) < MaxQueue
          /\ r2s' = Append(r2s, d)
          /\ UNCHANGED s2r
  /\ faults' = [faults EXCEPT !.noise = @ + 1]
  /\ UNCHANGED <<relayVars, getVars, hpVars, fnVars>>
  /\ UNCHANGED <<src_file, chunk_size, file_pos, sent_packets_count,
                 last_transmitted, snd_pc, wait, received_packets_count,
                 is_catching_up, rcv_pc, out_file, held, ev>>

(***************************************************************************)
(* The hole punch: utils/socket.rs init_socket, called by both drivers     *)
(* on their socket connected to the other peer, and what the drivers do    *)
(* with its result.  (get_command.rs calls the copy in utils/mod.rs, which *)
(* takes the same steps.)  A datagram is described by its length: 1 for    *)
(* the burst, 2 for the synchronisation, 3 for a datagram of the RDT.      *)
(***************************************************************************)
\* Datagrams in the burst: the code sends 40; the model scales the number
\* down.
BurstLen == 2

Peers == {"send", "get"}

Other(p) == IF p = "send" THEN "get" ELSE "send"

\* What a send can do: arrive, get lost on the way, or fail at the socket.
SendOutcomes == {"delivered", "lost", "error"}

\* socket.recv(&mut buffer) with a 2-byte buffer: at most 2 bytes are read.
RecvLen(len) == Min(len, 2)

\* The three drains: wait_for_condition(socket, |received| received == 1),
\* (.. != 2) and (.. == 2); the loop goes on while the condition holds.
Condition(pc, received) ==
  IF pc = "drain1" THEN received = 1
  ELSE IF pc = "drain2" THEN received # 2
  ELSE received = 2

Drains == {"drain1", "drain2", "drain3"}

\* What follows each step of init_socket; after the last drain it returns
\* Ok(()).
After(pc) ==
  IF pc = "send_packets" THEN "drain1"
  ELSE IF pc = "drain1" THEN "sync1"
  ELSE IF pc = "sync1" THEN "sync2"
  ELSE IF pc = "sync2" THEN "drain2"
  ELSE IF pc = "drain2" THEN "drain3"
  ELSE "returned"

\* The value init_socket has returned when it is over after step pc.
RetAfter(pc, ret) == IF After(pc) = "returned" THEN "Ok" ELSE ret

\* A datagram of length len sent to q arrives unless it is lost or the
\* queue is full.
Deliver(q, len, outcome) ==
  IF outcome = "delivered" /\ Len(inbox[q]) < MaxQueue
  THEN inbox' = [inbox EXCEPT ![q] = Append(@, len)]
  ELSE UNCHANGED inbox

\* send_packets: one `let _ = socket.send(&[0])` of the burst; its result is
\* dropped.
SendPackets(p) ==
  /\ peer[p].pc = "send_packets"
  /\ \E outcome \in SendOutcomes :
       /\ Deliver(Other(p), 1, outcome)
       /\ peer' = [peer EXCEPT
            ![p].burst = @ + 1,
            ![p].pc = IF peer[p].burst + 1 = BurstLen THEN After("send_packets") ELSE @,
            ![p].send_failed = @ \/ outcome = "error"]
  /\ UNCHANGED <<rdtVars, relayVars, getVars, fnVars>>

\* wait_for_condition: socket.recv returned a datagram.
HpRecv(p) ==
  /\ peer[p].pc \in Drains
  /\ inbox[p] # <<>>
  /\ LET received == RecvLen(Head(inbox[p])) IN
     /\ inbox' = [inbox EXCEPT ![p] = Tail(@)]
     /\ peer' = [peer EXCEPT
          ![p].got2 = @ \/ Head(inbox[p]) = 2,
          ![p].pc = IF Condition(peer[p].pc, received) THEN @ ELSE After(@),
          ![p].ret = IF Condition(peer[p].pc, received) THEN @
                     ELSE RetAfter(peer[p].pc, @)]
  /\ UNCHANGED <<rdtVars, relayVars, getVars, fnVars>>

\* wait_for_condition: socket.recv returned an error (nothing within the 1 s
\* read timeout, or a socket error): `while let Ok(..)` ends and Ok(()) is
\* returned.
HpRecvFails(p) ==
  /\ peer[p].pc \in Drains
  /\ peer' = [peer EXCEPT ![p].recv_failed = TRUE,
                          ![p].pc = After(@),
                          ![p].ret = RetAfter(peer[p].pc, @)]
  /\ UNCHANGED inbox
  /\ UNCHANGED <<rdtVars, relayVars, getVars, fnVars>>

\* init_socket: `socket.send(&[0, 0])?`, twice.
SendSync(p) ==
  /\ peer[p].pc \in {"sync1", "sync2"}
  /\ \E outcome \in SendOutcomes :
       /\ Deliver(Other(p), 2, outcome)
       /\ peer' = [peer EXCEPT
            ![p].pc = IF outcome = "error" THEN "returned" ELSE After(@),
            ![p].ret = IF outcome = "error" THEN "Err" ELSE @]
  /\ UNCHANGED <<rdtVars, relayVars, getVars, fnVars>>

\* utils/mod.rs init_socket, the copy get_command calls: the pause after a
\* send of the burst is `50 - elapsed` in u64.  When the send took more than
\* 50 ms the subtraction overflows: a panic in a build with overflow checks,
\* else a sleep of about 2^64 ms.
BurstOverflow ==
  /\ peer["get"].pc = "send_packets"
  /\ \E outcome \in {"panicked", "sleeping"} :
       peer' = [peer EXCEPT !["get"].pc = outcome]
  /\ UNCHANGED inbox
  /\ UNCHANGED <<rdtVars, relayVars, getVars, fnVars>>

\* A faulty variant of Proceeds: the result of init_socket is not looked at.
ProceedsAnyway(ret) == TRUE

\* The drivers: `init_socket(&socket)?`.
Proceeds(ret) == ret = "Ok"

\* The driver after init_socket has returned: on Ok it wraps the socket in
\* ReliableUdpSocket::new, on Err it returns the error.
OpenRdt(p) ==
  /\ peer[p].pc = "returned"
  /\ peer' = [peer EXCEPT ![p].pc = IF Proceeds(peer[p].ret) THEN "rdt" ELSE "exit"]
  /\ UNCHANGED inbox
  /\ UNCHANGED <<rdtVars, relayVars, getVars, fnVars>>

\* send_file: the first WRITE or END of the transfer.
RdtWrite ==
  /\ peer["send"].pc = "rdt"
  /\ ~peer["send"].emitted
  /\ \E outcome \in {"delivered", "lost"} : Deliver("get", 3, outcome)
  /\ peer' = [peer EXCEPT !["send"].emitted = TRUE]
  /\ UNCHANGED <<rdtVars, relayVars, getVars, fnVars>>

\* get_command's read: datagrams under 3 bytes are skipped, an RDT datagram
\* is answered (ACK or RESEND).
RdtRead ==
  /\ peer["get"].pc = "rdt"
  /\ inbox["get"] # <<>>
  /\ IF Head(inbox["get"]) >= 3
     THEN /\ inbox' = [inbox EXCEPT !["get"] = Tail(@),
                                    !["send"] = IF Len(@) < MaxQueue THEN Append(@, 3) ELSE @]
          /\ peer' = [peer EXCEPT !["get"].emitted = TRUE]
     ELSE /\ inbox' = [inbox EXCEPT !["get"] = Tail(@)]
          /\ UNCHANGED peer
  /\ UNCHANGED <<rdtVars, relayVars, getVars, fnVars>>

NoPeer == [pc |-> "send_packets", burst |-> 0, ret |-> "none", got2 |-> FALSE,
           send_failed |-> FALSE, recv_failed |-> FALSE, emitted |-> FALSE]

InitHpVars ==
  /\ peer = [p \in Peers |-> NoPeer]
  /\ inbox = [p \in Peers |-> <<>>]

\* No function is called on its own.
NotCalled == [called |-> FALSE]

IdleFnVars ==
  /\ fn_in = NotCalled
  /\ fn_out = NotCalled

(***************************************************************************)
(* The relay: commands/server_command.rs.                                  *)
(*                                                                         *)
(* A control datagram is described by what the relay's code looks at:      *)
(*   utf8   whether str::from_utf8 accepts the bytes;                      *)
(*   tag    the first whitespace-delimited token ("" when there is none);  *)
(*   rest   what follows the tag: "none" (the text ends with the tag),     *)
(*          "sep" (one separator and nothing else), "garbage" (a separator *)
(*          and text that is not JSON), "json" (a separator and a JSON     *)
(*          object);                                                       *)
(*   body   the JSON object, as a record of its fields (null is "null").   *)
(* Sends on the relay's socket are taken to succeed.                       *)
(***************************************************************************)
Addrs == {"a1", "a2"}

\* The strings PassphraseGenerator::generate can return.
Passphrases == {"p1", "p2"}

\* AnonymousString values of a file hash; "null" is AnonymousString(None).
Hashes == {"null", "h1"}

NoBody == [absent |-> TRUE]

S2XBodies == [file_size : {1}, file_name : {"f"}, file_hash : Hashes,
              sender_host : {"null"}]

RFIBodies == [passphrase : Passphrases]

RSCBodies == [passphrase : Passphrases, file_hash : Hashes,
              receiver_host : {"rh"}]

ControlTags == {"S2X_RP", "R2X_RFI", "R2X_RSC"}

\* The datagrams the relay is sent.
RelayInputs ==
  {[utf8 |-> FALSE, tag |-> "", rest |-> "none", body |-> NoBody]}
  \cup [utf8 : {TRUE}, tag : {"", "BOGUS"}, rest : {"none"}, body : {NoBody}]
  \cup [utf8 : {TRUE}, tag : ControlTags, rest : {"none", "sep", "garbage"},
        body : {NoBody}]
  \cup [utf8 : {TRUE}, tag : ControlTags, rest : {"json"},
        body : S2XBodies \cup RFIBodies \cup RSCBodies]

TagLen(tag) == IF tag = "S2X_RP" THEN 6 ELSE IF tag \in ControlTags THEN 7 ELSE Len(tag)

\* Byte length of the text: the tag, then nothing, one separator, or a
\* separator and at least one more byte.
TextLen(m) ==
  TagLen(m.tag) + (IF m.rest = "none" THEN 0 ELSE IF m.rest = "sep" THEN 1 ELSE 2)

\* handle_message: `&received_str[7..]` for S2X_RP, `&received_str[8..]` for
\* R2X_RFI and R2X_RSC.
SliceIndex(tag) == IF tag = "S2X_RP" THEN 7 ELSE 8

\* `&s[n..]` panics when n is beyond the end of s.
SlicePanics(m) == SliceIndex(m.tag) > TextLen(m)

\* Fields serde requires of each message type (models.rs).
RequiredFields(type) ==
  IF type = "S2XRequestPassphraseMessage"
  THEN {"file_size", "file_name", "file_hash", "sender_host"}
  ELSE IF type = "R2XRequestFileInfoMessage"
  THEN {"passphrase"}
  ELSE {"passphrase", "file_hash", "receiver_host"}

\* serde_json::from_str::<type>: an object with every required field
\* (unknown fields are ignored).
FromStrOk(type, m) == m.rest = "json" /\ RequiredFields(type) \subseteq DOMAIN m.body

\* NudgeError's Display strings (error.rs).
ErrorText(e) ==
  IF e = "UnknownCommand" THEN "Unknown command"
  ELSE IF e = "JsonParseError" THEN "Failed to parse JSON"
  ELSE IF e = "PassphraseNotFound" THEN "Passphrase not found"
  ELSE "Failed to generate passphrase"

Ok(map, sends) == [res |-> "Ok", err |-> "", map |-> map, sends |-> sends]

Err(e, map) == [res |-> "Err", err |-> e, map |-> map, sends |-> <<>>]

Panicked(map) == [res |-> "panic", err |-> "", map |-> map, sends |-> <<>>]

ControlDatagram(to, tag, body) == [to |-> to, tag |-> tag, body |-> body]

\* send_error: "ERROR <reason>\n" to addr.
SendError(addr, e) == ControlDatagram(addr, "ERROR", [reason |-> ErrorText(e)])

\* PassphraseGenerator::generate_with_count: None for zero words, else the
\* words the random generator draws joined by '-'; `drawn` is that string.
GenerateWithCount(word_count, drawn) ==
  IF word_count = 0 THEN [some |-> FALSE, value |-> ""]
  ELSE [some |-> TRUE, value |-> drawn]

\* PassphraseGenerator::generate.
Generate(drawn) == GenerateWithCount(3, drawn)

\* handle_sender_request_passphrase_message.
HandleSenderRequestPassphrase(addr, m, map, drawn, t) ==
  IF ~FromStrOk("S2XRequestPassphraseMessage", m) THEN Err("JsonParseError", map)
  ELSE LET file_info == [file_size |-> m.body.file_size,
                         file_name |-> m.body.file_name,
                         file_hash |-> m.body.file_hash,
                         created_at |-> t,
                         sender_host |-> m.body.sender_host,
                         sender_addr |-> addr]
           passphrase == Generate(drawn)
       IN IF ~passphrase.some THEN Err("PassphraseGenerationError", map)
          ELSE Ok(MapInsert(map, passphrase.value, file_info),
                  <<ControlDatagram(addr, "X2S_PPM",
                                    [passphrase |-> passphrase.value])>>)

\* A faulty variant of HandleReceiverRequestFileInfo: the lookup consumes the
\* offer.
ConsumingFileInfo(addr, m, map) ==
  IF m.rest # "json" \/ "passphrase" \notin DOMAIN m.body THEN Err("JsonParseError", map)
  ELSE IF m.body.passphrase \in DOMAIN map
  THEN Ok(MapRemove(map, m.body.passphrase),
          <<ControlDatagram(addr, "X2R_AFI", map[m.body.passphrase])>>)
  ELSE Err("PassphraseNotFound", map)

\* handle_receiver_request_file_info.
HandleReceiverRequestFileInfo(addr, m, map) ==
  IF ~FromStrOk("R2XRequestFileInfoMessage", m) THEN Err("JsonParseError", map)
  ELSE IF m.body.passphrase \in DOMAIN map
  THEN Ok(map, <<ControlDatagram(addr, "X2R_AFI", map[m.body.passphrase])>>)
  ELSE Err("PassphraseNotFound", map)

\* A faulty variant of HashMatches: the quoted hash is not looked at.
AnyHashMatches(offered, quoted) == TRUE

\* handle_receiver_accept: `file_info.file_hash == payload.file_hash`.
HashMatches(offered, quoted) == offered = quoted

\* A faulty variant of ClaimOffer: the claimed offer stays in the table.
KeepOffer(map, passphrase) == map

\* handle_receiver_accept: the table after a successful claim.
ClaimOffer(map, passphrase) == MapRemove(map, passphrase)

\* A faulty variant of SendSenderConnectToReceiver: the two endpoints are
\* swapped.
SendConnectToReceiver(sender_addr, receiver_addr, receiver_host) ==
  ControlDatagram(receiver_addr, "X2S_SCON",
                  [receiver_addr |-> sender_addr, receiver_host |-> receiver_host])

\* send_sender_connect_to_receiver: X2S_SCON {receiver_addr, receiver_host}
\* to the sender's stored endpoint.
SendSenderConnectToReceiver(sender_addr, receiver_addr, receiver_host) ==
  ControlDatagram(sender_addr, "X2S_SCON",
                  [receiver_addr |-> receiver_addr, receiver_host |-> receiver_host])

\* A faulty variant of HandleReceiverAccept: a matching claim sends X2S_SCON
\* to the sender twice.
ConnectingTwice(addr, m, map) ==
  IF ~FromStrOk("R2XRequestSenderConnectionMessage", m) THEN Err("JsonParseError", map)
  ELSE IF m.body.passphrase \notin DOMAIN map THEN Err("PassphraseNotFound", map)
  ELSE LET file_info == map[m.body.passphrase] IN
       IF HashMatches(file_info.file_hash, m.body.file_hash)
       THEN Ok(ClaimOffer(map, m.body.passphrase),
               <<SendSenderConnectToReceiver(file_info.sender_addr, addr,
                                             m.body.receiver_host),
                 SendSenderConnectToReceiver(file_info.sender_addr, addr,
                                             m.body.receiver_host)>>)
       ELSE Err("PassphraseNotFound", map)

\* A faulty variant of HandleReceiverAccept: a claim with the wrong hash
\* is refused and the offer is dropped from the table.
DroppingOnMismatch(addr, m, map) ==
  IF ~FromStrOk("R2XRequestSenderConnectionMessage", m) THEN Err("JsonParseError", map)
  ELSE IF m.body.passphrase \notin DOMAIN map THEN Err("PassphraseNotFound", map)
  ELSE LET file_info == map[m.body.passphrase] IN
       IF HashMatches(file_info.file_hash, m.body.file_hash)
       THEN Ok(ClaimOffer(map, m.body.passphrase),
               <<SendSenderConnectToReceiver(file_info.sender_addr, addr,
                                             m.body.receiver_host)>>)
       ELSE Err("PassphraseNotFound", MapRemove(map, m.body.passphrase))

\* handle_receiver_accept.
HandleReceiverAccept(addr, m, map) ==
  IF ~FromStrOk("R2XRequestSenderConnectionMessage", m) THEN Err("JsonParseError", map)
  ELSE IF m.body.passphrase \notin DOMAIN map THEN Err("PassphraseNotFound", map)
  ELSE LET file_info == map[m.body.passphrase] IN
       IF HashMatches(file_info.file_hash, m.body.file_hash)
       THEN Ok(ClaimOffer(map, m.body.passphrase),
               <<SendSenderConnectToReceiver(file_info.sender_addr, addr,
                                             m.body.receiver_host)>>)
       ELSE Err("PassphraseNotFound", map)

\* handle_message: dispatch on the first token; the payload is the text from
\* a fixed byte index on.
HandleMessage(addr, m, map, drawn, t) ==
  IF m.tag \in ControlTags /\ SlicePanics(m) THEN Panicked(map)
  ELSE IF m.tag = "S2X_RP" THEN HandleSenderRequestPassphrase(addr, m, map, drawn, t)
  ELSE IF m.tag = "R2X_RFI" THEN HandleReceiverRequestFileInfo(addr, m, map)
  ELSE IF m.tag = "R2X_RSC" THEN HandleReceiverAccept(addr, m, map)
  ELSE Err("UnknownCommand", map)

\* run's loop body for one datagram: bytes that are not UTF-8 are logged and
\* skipped; otherwise handle_message, and on Err one send_error to the source.
ServeDatagram(addr, m, map, drawn, t) ==
  IF ~m.utf8 THEN Ok(map, <<>>)
  ELSE LET r == HandleMessage(addr, m, map, drawn, t) IN
       IF r.res = "Err" THEN [r EXCEPT !.sends = <<SendError(addr, r.err)>>]
       ELSE r

\* Whether serving m mints a passphrase.
IsMint(m) ==
  m.utf8 /\ m.tag = "S2X_RP" /\ ~SlicePanics(m) /\ FromStrOk("S2XRequestPassphraseMessage", m)

\* What the random generator may draw while m is served: it is consulted
\* only when a passphrase is minted.
Draws(m) == IF IsMint(m) THEN Passphrases ELSE {"p1"}

\* One turn of the relay's loop: recv_from, then the loop body.  Time may
\* have passed since the previous datagram.
RelayServe ==
  /\ relay_pc = "recv_from"
  /\ \E addr \in Addrs, m \in RelayInputs, t \in now..MaxClock : \E drawn \in Draws(m) :
       LET r == ServeDatagram(addr, m, client_map, drawn, t) IN
       /\ now' = t
       /\ req' = [addr |-> addr, dg |-> m]
       /\ replies' = r.sends
       /\ client_map' = r.map
       /\ relay_pc' = IF r.res = "panic" THEN "panicked" ELSE "recv_from"
       /\ handed_off' = IF r.res = "Ok" /\ m.utf8 /\ m.tag = "R2X_RSC"
                        THEN handed_off \cup {m.body.passphrase}
                        ELSE IF r.res = "Ok" /\ m.utf8 /\ m.tag = "S2X_RP"
                        THEN handed_off \ {drawn}
                        ELSE handed_off
  /\ UNCHANGED <<rdtVars, getVars, hpVars, fnVars>>

NoRequest == [addr |-> "a1",
              dg |-> [utf8 |-> TRUE, tag |-> "", rest |-> "none", body |-> NoBody]]

NoFileInfo == [file_size |-> 0, file_name |-> "", file_hash |-> "null",
               created_at |-> 0, sender_host |-> "null", sender_addr |-> "a1"]

InitRelayVars ==
  /\ client_map = [x \in {} |-> NoFileInfo]
  /\ relay_pc = "recv_from"
  /\ now = 0
  /\ req = NoRequest
  /\ replies = <<>>
  /\ handed_off = {}

\* The data path before the transfer starts, for the relay's specification.
IdleRdtVars ==
  /\ src_file = <<>>
  /\ chunk_size = [send |-> 1, get |-> 1]
  /\ file_pos = 0
  /\ sent_packets_count = 0
  /\ last_transmitted = EmptyMap
  /\ snd_pc = "send_file"
  /\ wait = NoWait
  /\ received_packets_count = 0
  /\ is_catching_up = FALSE
  /\ rcv_pc = "read"
  /\ out_file = <<>>
  /\ s2r = <<>>
  /\ r2s = <<>>
  /\ held = {}
  /\ faults = NoFaults
  /\ ev = NoEvent

\* The receiver driver before it runs.
IdleGetVars ==
  /\ skip_hash = FALSE
  /\ recv_ack = [file_size |-> 0, file_hash |-> NoHash]
  /\ old_file = <<>>
  /\ get_ret = Running

InitRelay == InitRelayVars /\ IdleRdtVars /\ IdleGetVars /\ InitHpVars /\ IdleFnVars

NextRelay == RelayServe

SpecRelay == InitRelay /\ [][NextRelay]_vars

(***************************************************************************)
(* The hole-punch specification: both drivers from init_socket on.         *)
(***************************************************************************)
InitPunch == InitHpVars /\ IdleRdtVars /\ IdleGetVars /\ InitRelayVars /\ IdleFnVars

NextPunch ==
  \/ \E p \in Peers : SendPackets(p)
  \/ \E p \in Peers : HpRecv(p)
  \/ \E p \in Peers : HpRecvFails(p)
  \/ \E p \in Peers : SendSync(p)
  \/ \E p \in Peers : OpenRdt(p)
  \/ BurstOverflow
  \/ RdtWrite
  \/ RdtRead

SpecPunch == InitPunch /\ [][NextPunch]_vars

\* What the output file holds after OpenOptions (no truncation) and
\* set_len(file_size): zeros for a new file.
NewFile(file_size) == [i \in 1..file_size |-> 0]

\* The same when a file was there: its bytes, here an earlier copy of the
\* source.
OldFiles(file) == {NewFile(Len(file)), file}

(***************************************************************************)
(* The data-path specification.                                            *)
(***************************************************************************)
InitRdt ==
  /\ src_file \in {FileOfLen(n) : n \in 0..MaxFile}
  /\ chunk_size \in ChunkSizes
  /\ file_pos = 0
  /\ sent_packets_count = 0
  /\ last_transmitted = EmptyMap
  /\ snd_pc = "send_file"
  /\ wait = NoWait
  /\ received_packets_count = 0
  /\ is_catching_up = FALSE
  /\ rcv_pc = "read"
  /\ out_file = <<>>
  /\ s2r = <<>>
  /\ r2s = <<>>
  /\ held = {}
  /\ faults = NoFaults
  /\ ev = NoEvent
  /\ skip_hash = FALSE
  /\ recv_ack = [file_size |-> Len(src_file),
                 file_hash |-> SomeHash(HashFileAndSeek(src_file))]
  /\ old_file = NewFile(recv_ack.file_size)
  /\ get_ret = Running
  /\ InitHpVars
  /\ InitRelayVars
  /\ IdleFnVars

NextRdt ==
  \/ SndWrite
  \/ SndEnd
  \/ SndRecv
  \/ SndTimeout
  \/ RcvRecv
  \/ NetDrop
  \/ NetDuplicate
  \/ NetDelay
  \/ NetRelease

SpecRdt == InitRdt /\ [][NextRdt]_vars

(***************************************************************************)
(* ReliableUdpSocket under any caller: write_and_flush with either value   *)
(* of should_flush, then end(), against a reader, on the faulty channel.   *)
(***************************************************************************)
\* Calls of write_and_flush / end in one run.
MaxCalls == 4

\* The payloads written.
ApiData == {<<1>>}

\* write_and_flush(data, should_flush, delay):
\* internal_write(data, Write, should_flush, false, delay).
ApiWriteAndFlush ==
  /\ snd_pc = "send_file"
  /\ sent_packets_count < MaxCalls
  /\ \E data \in ApiData, should_flush \in BOOLEAN :
       InternalWrite(data, Write, should_flush, FALSE, "write_and_flush")
  /\ UNCHANGED <<relayVars, getVars, hpVars, fnVars>>
  /\ UNCHANGED <<src_file, chunk_size, file_pos, received_packets_count,
                 is_catching_up, rcv_pc, out_file, r2s, held, faults>>

\* end().
ApiEnd ==
  /\ snd_pc = "send_file"
  /\ InternalWrite(<<>>, EndSession, TRUE, TRUE, "end")
  /\ UNCHANGED <<relayVars, getVars, hpVars, fnVars>>
  /\ UNCHANGED <<src_file, chunk_size, file_pos, received_packets_count,
                 is_catching_up, rcv_pc, out_file, r2s, held, faults>>

InitApi ==
  /\ src_file = <<>>
  /\ chunk_size = [send |-> 2, get |-> 2]
  /\ file_pos = 0
  /\ sent_packets_count = 0
  /\ last_transmitted = EmptyMap
  /\ snd_pc = "send_file"
  /\ wait = NoWait
  /\ received_packets_count = 0
  /\ is_catching_up = FALSE
  /\ rcv_pc = "read"
  /\ out_file = <<>>
  /\ s2r = <<>>
  /\ r2s = <<>>
  /\ held = {}
  /\ faults = NoFaults
  /\ ev = NoEvent
  /\ IdleGetVars
  /\ InitHpVars
  /\ InitRelayVars
  /\ IdleFnVars

NextApi ==
  \/ ApiWriteAndFlush
  \/ ApiEnd
  \/ SndRecv
  \/ SndTimeout
  \/ RcvRecv
  \/ NetDrop
  \/ NetDuplicate
  \/ NetRelease

SpecApi == InitApi /\ [][NextApi]_vars

(***************************************************************************)
(* The two transfer drivers on a channel without faults, over the whole    *)
(* range of their options: chunk sizes at the progress-bar and payload     *)
(* limits, files as long as the payload limit, hash skipped or absent, an  *)
(* output file that exists already.                                        *)
(***************************************************************************)
\* --chunk-size values at the limits of the code.
LimitChunks == {ProgressBytes, ProgressBytes + 1, PayloadLimit, PayloadLimit + 1}

DriverChunkSizes == ChunkSizes \cup {[send |-> c, get |-> c] : c \in LimitChunks}

\* File lengths at the payload limit.
LimitFiles == {FileOfLen(PayloadLimit), FileOfLen(PayloadLimit + 1)}

\* The file with the chunk sizes tried on it: a file at the payload limit is
\* sent in chunks at the payload limit only, with the hash checked and no
\* output file there before.
DriverInputs ==
  {[file |-> f, chunk_size |-> c] : f \in {FileOfLen(n) : n \in 0..MaxFile},
                                    c \in DriverChunkSizes}
  \cup {[file |-> f, chunk_size |-> [send |-> c, get |-> c]] :
          f \in LimitFiles, c \in {PayloadLimit, PayloadLimit + 1}}

InitDriver ==
  /\ \E in \in DriverInputs : src_file = in.file /\ chunk_size = in.chunk_size
  /\ file_pos = 0
  /\ sent_packets_count = 0
  /\ last_transmitted = EmptyMap
  /\ snd_pc = "send_file"
  /\ wait = NoWait
  /\ received_packets_count = 0
  /\ is_catching_up = FALSE
  /\ rcv_pc = "read"
  /\ out_file = <<>>
  /\ s2r = <<>>
  /\ r2s = <<>>
  /\ held = {}
  /\ faults = NoFaults
  /\ ev = NoEvent
  /\ skip_hash \in BOOLEAN
  /\ \E h \in {NoHash, SomeHash(HashFileAndSeek(src_file))} :
       recv_ack = [file_size |-> Len(src_file), file_hash |-> h]
  /\ old_file \in OldFiles(src_file)
  /\ Len(src_file) > MaxFile
       => /\ ~skip_hash
          /\ recv_ack.file_hash # NoHash
          /\ old_file = NewFile(recv_ack.file_size)
  /\ get_ret = Running
  /\ InitHpVars
  /\ InitRelayVars
  /\ IdleFnVars

NextDriver ==
  \/ SndWrite
  \/ SndEnd
  \/ SndRecv
  \/ SndTimeout
  \/ RcvRecv

SpecDriver == InitDriver /\ [][NextDriver]_vars

(***************************************************************************)
(* The control codec: utils/serialize.rs receive_and_parse_and_expect.     *)
(* A datagram is its text, a sequence of characters.  The tags are scaled  *)
(* down to one letter: "P" for X2S_PPM, "S" for X2S_SCON, "E" for ERROR;   *)
(* "Q" is any other letter, and "{" "}" is the text of a JSON object of    *)
(* the type asked for.  The bytes are taken to be UTF-8.                   *)
(***************************************************************************)
\* The size of the receive buffer: the code has 1024 bytes; the model scales
\* it down.
BufferLen == 8
\* Longest run of characters after the body of a datagram.
MaxTrail == 2

SP == " "
NL == "\n"
NUL == "NUL"

\* `[0u8; 1024]`, then `connection.recv(&mut buffer)`: the datagram, cut to
\* the buffer, with the rest of the buffer left zero.
RecvBuffer(datagram) ==
  [i \in 1..BufferLen |-> IF i <= Len(datagram) THEN datagram[i] ELSE NUL]

\* str::trim_end_matches(c).
RECURSIVE TrimEndMatches(_, _)
TrimEndMatches(str, c) ==
  IF str # <<>> /\ str[Len(str)] = c
  THEN TrimEndMatches(SubSeq(str, 1, Len(str) - 1), c)
  ELSE str

\* char::is_whitespace.
IsWhitespace(c) == c \in {SP, NL}

\* str::trim_start, str::trim_end, str::trim.
RECURSIVE TrimStart(_)
TrimStart(str) ==
  IF str # <<>> /\ IsWhitespace(str[1]) THEN TrimStart(Tail(str)) ELSE str

RECURSIVE TrimEnd(_)
TrimEnd(str) ==
  IF str # <<>> /\ IsWhitespace(str[Len(str)])
  THEN TrimEnd(SubSeq(str, 1, Len(str) - 1))
  ELSE str

Trim(str) == TrimEnd(TrimStart(str))

\* The characters of str up to its first whitespace.
RECURSIVE UpToWhitespace(_)
UpToWhitespace(str) ==
  IF str = <<>> \/ IsWhitespace(str[1]) THEN <<>>
  ELSE <<str[1]>> \o UpToWhitespace(Tail(str))

\* `split_whitespace().next().unwrap_or_default()`: the first run of
\* characters that are not whitespace, "" when there is none.
SplitWhitespaceNext(str) == UpToWhitespace(TrimStart(str))

\* str::starts_with.
StartsWith(str, pat) == Len(str) >= Len(pat) /\ SubSeq(str, 1, Len(pat)) = pat

\* "ERROR ".
ErrorPrefix == <<"E", SP>>

JsonObject == <<"{", "}">>

\* serde_json::from_str::<T>(part): the text is one JSON value of type T.
\* (part has been trimmed by the caller.)
FromStr(part) == part = JsonObject

\* What receive_and_parse_and_expect returns: Ok(T) with the body decoded, or
\* the error with its fields.
CodecResult(res, expected, got, decoded) ==
  [called |-> TRUE, res |-> res, expected |-> expected, got |-> got,
   decoded |-> decoded]

\* A faulty variant of PrefixDiffers: a token that begins with the expected
\* tag is let through.
PrefixDoesNotBegin(prefix, expected_prefix) == ~StartsWith(prefix, expected_prefix)

\* `prefix != expected_prefix`.
PrefixDiffers(prefix, expected_prefix) == prefix # expected_prefix

ReceiveAndParseAndExpect(datagram, expected_prefix) ==
  LET buffer == RecvBuffer(datagram)
      message_trimmed == TrimEndMatches(buffer, NUL)
      prefix == SplitWhitespaceNext(message_trimmed)
      part == Trim(SubSeq(message_trimmed, Len(prefix) + 1, Len(message_trimmed)))
  IN IF StartsWith(message_trimmed, ErrorPrefix)
     THEN CodecResult("ServerError", <<>>, message_trimmed, FALSE)
     ELSE IF PrefixDiffers(prefix, expected_prefix)
     THEN CodecResult("ReceiveExpectationNotMet", expected_prefix, prefix, FALSE)
     ELSE IF FromStr(part)
     THEN CodecResult("Ok", expected_prefix, prefix, TRUE)
     ELSE CodecResult("JsonParseError", expected_prefix, prefix, FALSE)

\* The tags the sender driver expects (send_command.rs run).
ExpectedPrefixes == {<<"P">>, <<"S">>}

\* Sequences over chars of length up to n.
SeqsUpTo(chars, n) == UNION {[1..k -> chars] : k \in 0..n}

\* The datagrams tried: optional whitespace, a token or none, a separator or
\* none, a body or none, and trailing whitespace and NULs in any order.
CodecDatagrams ==
  {lead \o token \o sep \o body \o trail :
     lead \in {<<>>, <<SP>>},
     token \in {<<>>, <<"P">>, <<"S">>, <<"E">>, <<"P", "Q">>},
     sep \in {<<>>, <<SP>>, <<NL>>, <<SP, SP>>},
     body \in {<<>>, JsonObject, <<"{">>},
     trail \in SeqsUpTo({SP, NL, NUL}, MaxTrail)}

\* One call of receive_and_parse_and_expect.
CodecReceive ==
  /\ fn_out = NotCalled
  /\ fn_out' = ReceiveAndParseAndExpect(fn_in.datagram, fn_in.expected_prefix)
  /\ UNCHANGED fn_in
  /\ UNCHANGED <<rdtVars, relayVars, getVars, hpVars>>

InitCodec ==
  /\ \E d \in CodecDatagrams, x \in ExpectedPrefixes :
       fn_in = [called |-> TRUE, datagram |-> d, expected_prefix |-> x]
  /\ fn_out = NotCalled
  /\ IdleRdtVars /\ IdleGetVars /\ InitHpVars /\ InitRelayVars

NextCodec == CodecReceive

SpecCodec == InitCodec /\ [][NextCodec]_vars

(***************************************************************************)
(* The receiver's choice of the output path: get_command.rs run.  A name   *)
(* is a sequence of characters: "/", "." and a letter.                     *)
(***************************************************************************)
\* Longest file_name tried, in characters.
MaxName == 4

\* str::split(c): the pieces of str between the occurrences of c, in order;
\* one piece more than there are occurrences.
RECURSIVE Split(_, _)
Split(str, c) ==
  IF str = <<>> THEN << <<>> >>
  ELSE LET rest == Split(Tail(str), c) IN
       IF str[1] = c THEN << <<>> >> \o rest
       ELSE << <<str[1]>> \o rest[1] >> \o Tail(rest)

\* A faulty variant of LastPiece: the first piece is taken.
FirstPiece(pieces) == pieces[1]

\* Iterator::last() on the pieces (never None: split yields a piece).
LastPiece(pieces) == pieces[Len(pieces)]

\* get_opts.out_file: Option<String>.
NoOutFile == [some |-> FALSE, value |-> <<>>]

SomeOutFile(value) == [some |-> TRUE, value |-> value]

\* run: `if let Some(out_file) = &get_opts.out_file { out_file } else
\* { recv_ack.file_name.split("/").last().expect(..) }`.
OutFileName(opt_out_file, file_name) ==
  IF opt_out_file.some THEN opt_out_file.value
  ELSE LastPiece(Split(file_name, "/"))

\* The file names the relay passes on (whatever the sender gave), and the
\* -o option.
FileNames == SeqsUpTo({"/", ".", "e"}, MaxName)

OutFiles == {NoOutFile, SomeOutFile(<<"o">>), SomeOutFile(<<"/", "o">>)}

\* run, from the FileInfo received to the output path chosen.
ChooseOutFile ==
  /\ fn_out = NotCalled
  /\ fn_out' = [called |-> TRUE,
                out_file_name |-> OutFileName(fn_in.out_file, fn_in.file_name)]
  /\ UNCHANGED fn_in
  /\ UNCHANGED <<rdtVars, relayVars, getVars, hpVars>>

InitOutFile ==
  /\ \E o \in OutFiles, n \in FileNames :
       fn_in = [called |-> TRUE, out_file |-> o, file_name |-> n]
  /\ fn_out = NotCalled
  /\ IdleRdtVars /\ IdleGetVars /\ InitHpVars /\ InitRelayVars

NextOutFile == ChooseOutFile

SpecOutFile == InitOutFile /\ [][NextOutFile]_vars

(***************************************************************************)
(* The passphrase minter: utils/passphrase.rs.  A word and a passphrase    *)
(* are sequences of characters.                                            *)
(***************************************************************************)
\* Largest word_count tried.
MaxWords == 3

\* PassphraseGenerator::new: the lines of the embedded word list (a sample:
\* the list itself is a data file).
WordList == << <<"a">>, <<"b", "c">>, <<"d">> >>

\* A faulty variant of Separator: a '-' is pushed before the first word too.
SeparatorAlways(i) == <<"-">>

\* generate_with_count's loop: `if i != 0 { passphrase.push('-') }`.
Separator(i) == IF i # 0 THEN <<"-">> ELSE <<>>

\* generate_with_count's loop from iteration i on: the separator, then the
\* word at the index the random generator gave (`rng.gen_range(0..len)`,
\* counted from 1 here).
RECURSIVE PushWords(_, _, _)
PushWords(passphrase, i, rng) ==
  IF i = Len(rng) THEN passphrase
  ELSE PushWords(passphrase \o Separator(i) \o WordList[rng[i + 1]], i + 1, rng)

\* What the random generator gives in a call for word_count words.
RngDraws(word_count) == [1..word_count -> 1..Len(WordList)]

\* The calls tried: generate_with_count(n) and generate().
MinterCalls ==
  {[called |-> TRUE, fn |-> "generate_with_count", word_count |-> n, rng |-> r] :
     n \in 0..MaxWords, r \in SeqsUpTo(1..Len(WordList), MaxWords)}
  \cup {[called |-> TRUE, fn |-> "generate", word_count |-> 0, rng |-> r] :
          r \in RngDraws(3)}

\* One call of generate_with_count or generate.
MinterGenerate ==
  /\ fn_out = NotCalled
  /\ LET drawn == PushWords(<<>>, 0, fn_in.rng)
         ret == IF fn_in.fn = "generate" THEN Generate(drawn)
                ELSE GenerateWithCount(fn_in.word_count, drawn)
     IN fn_out' = [called |-> TRUE, ret |-> ret]
  /\ UNCHANGED fn_in
  /\ UNCHANGED <<rdtVars, relayVars, getVars, hpVars>>

InitMinter ==
  /\ fn_in \in MinterCalls
  /\ fn_in.fn = "generate_with_count" => fn_in.rng \in RngDraws(fn_in.word_count)
  /\ fn_out = NotCalled
  /\ IdleRdtVars /\ IdleGetVars /\ InitHpVars /\ InitRelayVars

NextMinter == MinterGenerate

SpecMinter == InitMinter /\ [][NextMinter]_vars

(***************************************************************************)
(* Properties of the data path (checked under SpecRdt).                    *)
(***************************************************************************)
\* The two peers use the same chunk size (the receiver's buffer holds a
\* whole WRITE).
SameChunkSize == chunk_size.get >= chunk_size.send

\* C1: for a completed transfer (the sender's end() has returned and the
\* receiver's read loop has stopped on a 0-byte read) the bytes handed to the
\* receiver's caller are, in order, the bytes the sender passed to
\* write_and_flush, on a channel that may lose, duplicate or reorder.
C1_CompletedTransferIsExact ==
  (snd_pc = "done" /\ rcv_pc = "done" /\ SameChunkSize) => out_file = src_file

\* C2: when the channel drops a single WRITE datagram (and does nothing else
\* wrong) the loss is recovered: the receiver's read loop does not stop
\* before every chunk has been delivered.
C2_SingleDropIsRecovered ==
  (/\ faults = [NoFaults EXCEPT !.drop = 1, !.lost = {Write}]
   /\ rcv_pc = "done"
   /\ SameChunkSize)
    => out_file = src_file

\* C3: read() never returns the bytes of a duplicate or stale datagram, one
\* at or before the last delivered position of the stream, also after the
\* sequence number has wrapped.  The bytes of the source file are 1, 2, ...
\* in order, so every delivery must continue the output file upwards.
C3_NeverDeliversStale ==
  \A i \in 1..(Len(out_file) - 1) : out_file[i] < out_file[i + 1]

\* C4 (state part): a datagram whose sequence is greater than recv_seq is
\* not delivered, leaves recv_seq unchanged and makes the receiver emit
\* exactly RESEND recv_seq.
AheadIsRefused ==
  (ev.op = "read" /\ ev.dg.seq > ev.recv_seq)
    => /\ ev.data = <<>>
       /\ ev.ret \in {"continue", "eof"}
       /\ ev.sent = <<Datagram(ev.recv_seq, ResendRequest, <<>>)>>
       /\ AsU16(received_packets_count) = ev.recv_seq

\* C4 (step part): recv_seq changes only by +1 and only in a step of read()
\* that received a datagram whose sequence equals recv_seq.
RecvSeqAdvance ==
  received_packets_count' # received_packets_count
    => /\ received_packets_count' = received_packets_count + 1
       /\ ev'.op = "read"
       /\ ev'.dg.seq = AsU16(received_packets_count)
       /\ DatagramLen(ev'.dg) >= 3

\* C4: contiguous delivery, the two parts together.
C4_ContiguousDelivery == []AheadIsRefused /\ [][RecvSeqAdvance]_vars

\* C4's case: a datagram ahead of recv_seq has been received and answered
\* with RESEND recv_seq.
C4_Witness ==
  /\ ev.op = "read"
  /\ ev.dg.seq > ev.recv_seq
  /\ ev.sent = <<Datagram(ev.recv_seq, ResendRequest, <<>>)>>
  /\ r2s # <<>>
  /\ received_packets_count > 0

(***************************************************************************)
(* Properties of the relay (checked under SpecRelay).  Every step of       *)
(* SpecRelay that changes the state serves one datagram: req' is that      *)
(* datagram with its source, replies' what the relay sent for it, and the  *)
(* unprimed client_map the table it was served from.                       *)
(***************************************************************************)
\* r is a well-formed R2X_RFI / R2X_RSC / S2X_RP.
IsRFI(r) == r.dg.utf8 /\ r.dg.tag = "R2X_RFI" /\ r.dg.rest = "json"
            /\ "passphrase" \in DOMAIN r.dg.body

IsRSC(r) == r.dg.utf8 /\ r.dg.tag = "R2X_RSC" /\ r.dg.rest = "json"
            /\ {"passphrase", "file_hash", "receiver_host"} \subseteq DOMAIN r.dg.body

IsRP(r) == r.dg.utf8 /\ r.dg.tag = "S2X_RP" /\ r.dg.rest = "json"
           /\ {"file_size", "file_name", "file_hash", "sender_host"} \subseteq DOMAIN r.dg.body

\* "ERROR Passphrase not found" to r's source, and nothing else.
NotFoundTo(r) == <<[to |-> r.addr, tag |-> "ERROR",
                    body |-> [reason |-> "Passphrase not found"]]>>

\* C5 (step part): an R2X_RFI or R2X_RSC quoting a handed-off passphrase is
\* answered with exactly "ERROR Passphrase not found" (so with no X2S_SCON)
\* and the passphrase stays absent.
ClaimedIsGone ==
  \A p \in handed_off :
    ((IsRFI(req') \/ IsRSC(req')) /\ req'.dg.body.passphrase = p)
      => replies' = NotFoundTo(req') /\ p \notin DOMAIN client_map'

\* C5: the claim of a passphrase is one-shot: once an R2X_RSC with a live
\* passphrase and matching hash has been served, the passphrase is not in the
\* table and every later R2X_RFI or R2X_RSC quoting it is answered with
\* "ERROR Passphrase not found", until an S2X_RP mints it again.
C5_ClaimIsOneShot ==
  [](handed_off \cap DOMAIN client_map = {}) /\ [][ClaimedIsGone]_vars

\* C5's case: an R2X_RFI quoting a handed-off passphrase was just refused.
C5_Witness ==
  /\ IsRFI(req)
  /\ req.dg.body.passphrase \in handed_off
  /\ replies = NotFoundTo(req)

\* C6 (step): an R2X_RSC for a live passphrase with another hash than the
\* offer's changes nothing in the table and is answered with exactly
\* "ERROR Passphrase not found" to the receiver (so no X2S_SCON is sent).
HashGate ==
  (/\ IsRSC(req')
   /\ req'.dg.body.passphrase \in DOMAIN client_map
   /\ client_map[req'.dg.body.passphrase].file_hash # req'.dg.body.file_hash)
    => client_map' = client_map /\ replies' = NotFoundTo(req')

\* C6: hash gate.
C6_HashGate == [][HashGate]_vars

\* C6's case: an R2X_RSC with a wrong hash was just refused and the offer it
\* quoted is still live.
C6_Witness ==
  /\ IsRSC(req)
  /\ req.dg.body.passphrase \in DOMAIN client_map
  /\ client_map[req.dg.body.passphrase].file_hash # req.dg.body.file_hash
  /\ client_map[req.dg.body.passphrase].file_hash # "null"
  /\ replies = NotFoundTo(req)

\* C7: when an S2X_RP is served, the passphrase returned in X2S_PPM is not
\* already a key of the session table, so that no live offer is replaced.
C7_MintedPassphraseIsFresh ==
  [][(IsRP(req') /\ Len(replies') = 1 /\ replies'[1].tag = "X2S_PPM")
       => replies'[1].body.passphrase \notin DOMAIN client_map]_vars

\* C8: whatever datagram the relay has received, it is in its receive loop
\* again, able to serve the next one.
C8_RelayKeepsServing == relay_pc = "recv_from"

\* A datagram the relay cannot serve from table map: undecodable bytes, an
\* unknown tag, a body that is not the JSON the tag needs, an unknown
\* passphrase, a wrong hash.
Fails(r, map) ==
  \/ ~r.dg.utf8
  \/ r.dg.tag \notin ControlTags
  \/ ~(IsRP(r) \/ IsRFI(r) \/ IsRSC(r))
  \/ (IsRFI(r) \/ IsRSC(r)) /\ r.dg.body.passphrase \notin DOMAIN map
  \/ IsRSC(r) /\ r.dg.body.passphrase \in DOMAIN map
              /\ map[r.dg.body.passphrase].file_hash # r.dg.body.file_hash

\* C9: every failure while a datagram is handled results in exactly one
\* ERROR datagram, sent to the endpoint the datagram came from.
C9_EveryFailureIsReported ==
  [][Fails(req', client_map)
       => Len(replies') = 1 /\ replies'[1].tag = "ERROR" /\ replies'[1].to = req'.addr]_vars

\* C10 (step): an R2X_RSC for a live passphrase with the offer's hash (both
\* absent included) removes that offer and no other, and the only datagram
\* sent is one X2S_SCON, to the offer's stored sender endpoint, carrying the
\* source of the R2X_RSC as receiver_addr.
Brokered ==
  (/\ IsRSC(req')
   /\ req'.dg.body.passphrase \in DOMAIN client_map
   /\ client_map[req'.dg.body.passphrase].file_hash = req'.dg.body.file_hash)
    => /\ DOMAIN client_map' = DOMAIN client_map \ {req'.dg.body.passphrase}
       /\ \A q \in DOMAIN client_map' : client_map'[q] = client_map[q]
       /\ replies' = <<[to |-> client_map[req'.dg.body.passphrase].sender_addr,
                        tag |-> "X2S_SCON",
                        body |-> [receiver_addr |-> req'.addr,
                                  receiver_host |-> req'.dg.body.receiver_host]]>>

\* C10: a matching R2X_RSC is brokered.
C10_MatchingClaimIsBrokered == [][Brokered]_vars

\* C10's case: an R2X_RSC was just brokered, with both hashes absent, to a
\* sender at another endpoint than the receiver, while another offer stays.
C10_Witness ==
  /\ IsRSC(req)
  /\ req.dg.body.file_hash = "null"
  /\ req.dg.body.passphrase \in handed_off
  /\ Len(replies) = 1
  /\ replies[1].tag = "X2S_SCON"
  /\ replies[1].to # req.addr
  /\ replies[1].body.receiver_addr = req.addr
  /\ DOMAIN client_map # {}

\* C11 (step): serving a datagram tagged R2X_RFI, whatever follows the
\* tag, leaves the session table as it was, and for a live passphrase the
\* only datagram sent is X2R_AFI to the source carrying the FileInfo stored
\* under the passphrase, which is the same before and after the step.
LookupIsPure ==
  (req'.dg.utf8 /\ req'.dg.tag = "R2X_RFI")
    => /\ client_map' = client_map
       /\ (IsRFI(req') /\ req'.dg.body.passphrase \in DOMAIN client_map)
            => replies' = <<[to |-> req'.addr, tag |-> "X2R_AFI",
                             body |-> client_map'[req'.dg.body.passphrase]]>>

\* C11: R2X_RFI is idempotent: handled any number of times for any
\* passphrase it leaves the session table unchanged, and for a live
\* passphrase every repetition returns the same X2R_AFI FileInfo.
C11_LookupIsIdempotent == [][LookupIsPure]_vars

\* C11's case: an R2X_RFI for a live passphrase was just answered with the
\* stored FileInfo, which is still in the table.
C11_Witness ==
  /\ IsRFI(req)
  /\ req.dg.body.passphrase \in DOMAIN client_map
  /\ Len(replies) = 1
  /\ replies[1].tag = "X2R_AFI"
  /\ replies[1].body = client_map[req.dg.body.passphrase]
  /\ replies[1].body.sender_addr # req.addr

(***************************************************************************)
(* Properties of the sender (checked under SpecRdt).  send_seq is          *)
(* sent_packets_count as u16, unacked is last_transmitted.                 *)
(***************************************************************************)
\* C16 (step): the counter changes only in an accepted write_and_flush or
\* end, by one, and the datagram then emitted is a WRITE or END carrying the
\* old counter as u16; every accepted call changes it; a step of the
\* acknowledgment wait leaves it and emits only stored datagrams.
SendSeqStep ==
  /\ sent_packets_count' # sent_packets_count
       => /\ sent_packets_count' = sent_packets_count + 1
          /\ ev'.op \in {"write_and_flush", "end"}
          /\ ev'.ret = "Ok"
          /\ ev'.dg.seq = sent_packets_count % SeqMod
          /\ ev'.dg.kind \in {Write, EndSession}
          /\ ev'.sent = <<ev'.dg>>
          /\ s2r' = Append(s2r, ev'.dg)
  /\ (ev' # ev /\ ev'.op \in {"write_and_flush", "end"} /\ ev'.ret = "Ok")
       => sent_packets_count' = sent_packets_count + 1
  /\ (ev' # ev /\ ev'.op \in {"wait_recv", "wait_timeout"})
       => /\ sent_packets_count' = sent_packets_count
          /\ \A i \in 1..Len(ev'.sent) :
               /\ ev'.sent[i].seq \in DOMAIN last_transmitted
               /\ ev'.sent[i] = last_transmitted[ev'.sent[i].seq]

\* C16: send_seq is incremented exactly once per WRITE or END emitted by
\* write_and_flush/end, the k-th accepted call carrying sequence (k-1) modulo
\* the sequence space; retransmissions triggered by RESEND or by the 10 s
\* probe reuse the stored datagram and do not change send_seq.
C16_SendSeqOncePerDatagram == [][SendSeqStep]_vars

\* C16's case: the sender has just retransmitted a stored datagram on a
\* RESEND, after the sequence has wrapped.
C16_Witness ==
  /\ ev.op = "wait_recv"
  /\ ev.dg.kind = ResendRequest
  /\ Len(ev.sent) = 1
  /\ sent_packets_count > SeqMod

\* C20: the sender's unacked map holds more than one entry only while the
\* sender is in the acknowledgment wait of the wrap flush.
C20_UnackedIsBounded ==
  Cardinality(DOMAIN last_transmitted) > 1
    => snd_pc = "write_and_flush" /\ wait.packet_index = SeqMod - 1

(***************************************************************************)
(* Properties of the drivers' use of the socket (checked under SpecDriver, *)
(* C18 under SpecRdt).                                                     *)
(***************************************************************************)
\* C12 (write): a step that moves the sender's file position is a call of
\* write_and_flush with the bytes just read.  More than 65532 bytes are
\* refused with DataPacketLimitExceeded, nothing is sent or consumed and the
\* sender's and receiver's counters and the unacked map stay; up to 65532
\* bytes are accepted and sent in one datagram.
WriteLimit ==
  file_pos' # file_pos
    => IF file_pos' - file_pos > 65532
       THEN /\ ev'.op = "write_and_flush"
            /\ ev'.ret = "DataPacketLimitExceeded"
            /\ snd_pc' = "failed"
            /\ s2r' = s2r /\ r2s' = r2s
            /\ sent_packets_count' = sent_packets_count
            /\ received_packets_count' = received_packets_count
            /\ last_transmitted' = last_transmitted
       ELSE /\ ev'.op = "write_and_flush"
            /\ ev'.ret = "Ok"
            /\ Len(s2r') = Len(s2r) + 1
            /\ Len(s2r'[Len(s2r')].data) = file_pos' - file_pos

\* C12 (read): a call of read with a buffer of more than 65532 bytes fails
\* with BufferSizeLimitExceeded, nothing is sent or consumed and the counters
\* and the unacked map stay; a buffer of up to 65532 bytes is accepted and a
\* datagram is taken from the socket.
ReadLimit ==
  (ev' # ev /\ ev'.op = "read")
    => IF chunk_size.get > 65532
       THEN /\ ev'.ret = "BufferSizeLimitExceeded"
            /\ rcv_pc' = "failed"
            /\ s2r' = s2r /\ r2s' = r2s
            /\ sent_packets_count' = sent_packets_count
            /\ received_packets_count' = received_packets_count
            /\ last_transmitted' = last_transmitted
       ELSE /\ ev'.ret # "BufferSizeLimitExceeded"
            /\ s2r # <<>>
            /\ s2r' = Tail(s2r)

\* C12: size limits of write_and_flush and read.
C12_SizeLimits == [][WriteLimit /\ ReadLimit]_vars

\* C12's case: a write of 65533 bytes and a read into 65533 bytes have both
\* been refused.
C12_Witness ==
  /\ Len(src_file) = 65533
  /\ snd_pc = "failed"
  /\ rcv_pc = "failed"
  /\ sent_packets_count = 0
  /\ s2r = <<>>

\* C18: when the offer carries a hash H and the receiver does not skip the
\* verification, run returns success only if the digest of the whole output
\* file after the read loop is H, hence only if the file equals the source
\* whose digest H is, and otherwise it returns HashMismatch(H, actual).
C18_HashRoundTrip ==
  (rcv_pc = "done" /\ recv_ack.file_hash.some /\ ~skip_hash)
    => LET file == out_file \o SubSeq(old_file, Len(out_file) + 1, Len(old_file))
           actual == HashFileAndSeek(file)
           H == recv_ack.file_hash.hex
       IN IF actual = H
          THEN get_ret.res = "Ok" /\ (H = HashFileAndSeek(src_file) => file = src_file)
          ELSE get_ret = [res |-> "HashMismatch", expected |-> H, actual |-> actual]

\* C18's case: a WRITE was lost, the read loop stopped early and run
\* returned HashMismatch.
C18_Witness ==
  /\ rcv_pc = "done"
  /\ out_file # src_file
  /\ faults.lost = {Write}
  /\ get_ret.res = "HashMismatch"
  /\ get_ret.expected = HashFileAndSeek(src_file)

\* ceil(n / c)
CeilDiv(n, c) == (n + c - 1) \div c

\* C19: for a file of n bytes and a chunk size c from 1 to 65532 on both
\* sides, without retransmissions, the sender driver gets to END after
\* ceil(n/c) WRITEs (END has sequence ceil(n/c)), it does not stop otherwise,
\* and the receiver's loop ends with n bytes received.
C19_DriverSendsWholeFile ==
  (chunk_size.send = chunk_size.get /\ chunk_size.send <= 65532)
    => /\ snd_pc \notin {"panicked", "failed"}
       /\ snd_pc \in {"end", "done"}
            => sent_packets_count = CeilDiv(Len(src_file), chunk_size.send) + 1
       /\ rcv_pc \notin {"panicked", "failed"}
       /\ rcv_pc = "done" => Len(out_file) = Len(src_file)

(***************************************************************************)
(* Properties of write_and_flush under any caller (checked under SpecApi). *)
(***************************************************************************)
\* C17 (entry): an accepted write_and_flush ends in the acknowledgment wait
\* exactly when should_flush is set or its datagram has the last sequence
\* before the wrap; otherwise it has returned to its caller with the
\* datagram sent and stored and without a datagram read from the socket.
WaitIffFlush ==
  (sent_packets_count' # sent_packets_count /\ ev'.op = "write_and_flush")
    => /\ snd_pc' = "write_and_flush" <=> (ev'.flush \/ ev'.dg.seq = SeqMod - 1)
       /\ snd_pc' # "write_and_flush"
            => /\ snd_pc' = "send_file"
               /\ r2s' = r2s
               /\ s2r' = Append(s2r, ev'.dg)
               /\ last_transmitted'[ev'.dg.seq] = ev'.dg

\* C17 (exit): the wait of a write_and_flush ends only on an ACK carrying
\* the sequence waited for, or when the datagram is not in the unacked map.
WaitEndsOnAck ==
  (snd_pc = "write_and_flush" /\ snd_pc' # "write_and_flush")
    => \/ /\ ev'.op = "wait_recv"
          /\ ev'.dg.kind = Acknowledgment
          /\ ev'.dg.seq = wait.packet_index
          /\ DatagramLen(ev'.dg) = 3
          /\ r2s' = Tail(r2s)
       \/ wait.packet_index \notin DOMAIN last_transmitted

\* C17: write_and_flush enters the acknowledgment wait if and only if flush
\* is true or the datagram's sequence is the last before the wrap; when it
\* waits it returns only after an ACK for that sequence has been received
\* or the datagram is no longer in unacked.
C17_WaitIffFlushOrWrap == [][WaitIffFlush /\ WaitEndsOnAck]_vars

\* C17's case: a write_and_flush that waited because of should_flush alone
\* (its sequence is not the last before the wrap) has returned on its ACK,
\* after the first copy of its datagram was lost.
C17_Witness ==
  /\ ev.op = "wait_recv"
  /\ ev.ret = "acked"
  /\ ev.dg.seq < SeqMod - 1
  /\ snd_pc = "send_file"
  /\ faults.lost = {Write}

(***************************************************************************)
(* Properties of the hole punch (checked under SpecPunch).                 *)
(***************************************************************************)
\* C13 (state): a driver that has the RDT open, or has emitted an RDT
\* datagram, got Ok from init_socket; a driver whose init_socket returned an
\* error has no RDT and has emitted nothing.
RdtOnlyAfterOk ==
  \A p \in Peers :
    /\ (peer[p].pc = "rdt" \/ peer[p].emitted) => peer[p].ret = "Ok"
    /\ peer[p].ret = "Err" => peer[p].pc \in {"returned", "exit"} /\ ~peer[p].emitted

\* C13 (step): a datagram of the RDT (3 bytes or more) is added to a peer's
\* queue only by a driver whose init_socket had returned Ok.
RdtDatagramOnlyAfterOk ==
  \A q \in Peers :
    (/\ Len(inbox'[q]) > 0
     /\ inbox'[q][Len(inbox'[q])] >= 3
     /\ inbox'[q] # inbox[q]
     /\ Len(inbox'[q]) >= Len(inbox[q]))
      => peer[Other(q)].ret = "Ok"

\* C13: neither peer sends RDT datagrams before its init_socket has returned
\* Ok, and if init_socket returns an error the RDT is never created.
C13_NoRdtBeforePunch == []RdtOnlyAfterOk /\ [][RdtDatagramOnlyAfterOk]_vars

\* C13's case: the sender has sent its first RDT datagram after a successful
\* init_socket while the receiver's init_socket failed and its driver left.
C13_Witness ==
  /\ peer["send"].emitted
  /\ peer["send"].ret = "Ok"
  /\ peer["get"].ret = "Err"
  /\ peer["get"].pc = "exit"

\* C14: init_socket returns Ok only if the peer has received at least one
\* datagram of length 2 from the other peer.
C14_OkMeansPeerResponded ==
  \A p \in Peers : peer[p].ret = "Ok" => peer[p].got2

\* C15: a failed send in the burst, or a failed or timed-out recv in a drain,
\* makes init_socket return a failure: it never returns Ok then, and the
\* driver does not open the RDT.
C15_SocketErrorFailsHandshake ==
  \A p \in Peers :
    (peer[p].send_failed \/ peer[p].recv_failed)
      => peer[p].ret # "Ok" /\ peer[p].pc # "rdt"

(***************************************************************************)
(* Properties of the control codec (checked under SpecCodec).              *)
(***************************************************************************)
\* The text of a datagram: its characters up to the NULs that end it.
WireLen(d) ==
  CHOOSE n \in 0..Len(d) :
    /\ \A k \in (n + 1)..Len(d) : d[k] = NUL
    /\ n = 0 \/ d[n] # NUL

\* The first whitespace-delimited token of the text of d, <<>> when it has
\* none.
FirstToken(d) ==
  LET n == WireLen(d)
      ends == {p \in (0..n) \X (1..n) :
                 /\ p[1] < p[2]
                 /\ \A k \in 1..p[1] : IsWhitespace(d[k])
                 /\ \A k \in (p[1] + 1)..p[2] : ~IsWhitespace(d[k])
                 /\ p[2] = n \/ IsWhitespace(d[p[2] + 1])}
  IN IF ends = {} THEN <<>>
     ELSE LET p == CHOOSE p \in ends : TRUE IN SubSeq(d, p[1] + 1, p[2])

\* C21 (tag): a datagram whose first token is neither the expected tag nor
\* ERROR fails with ReceiveExpectationNotMet(expected, token) and no body is
\* decoded.
TagIsStrict ==
  fn_out.called
    => LET Y == FirstToken(fn_in.datagram)
           X == fn_in.expected_prefix
       IN (Y # X /\ Y # <<"E">>)
            => /\ fn_out.res = "ReceiveExpectationNotMet"
               /\ fn_out.expected = X
               /\ fn_out.got = Y
               /\ ~fn_out.decoded

\* d is the tag X, a space, a JSON body and then only whitespace and NULs.
WellFormed(d, X) ==
  LET n == Len(X) + 1 + Len(JsonObject) IN
  /\ Len(d) >= n
  /\ SubSeq(d, 1, n) = X \o <<SP>> \o JsonObject
  /\ \A k \in (n + 1)..Len(d) : d[k] \in {SP, NL, NUL}

\* In d no whitespace follows a NUL.
NulsLast(d) ==
  \A k \in 1..Len(d) : d[k] = NUL => \A j \in k..Len(d) : d[j] = NUL

\* C21 (as amended): tag strictness as claimed; a datagram with the expected
\* tag, a space and a JSON body is decoded whatever whitespace follows the
\* body and whatever number of NULs follows that whitespace.
C21_TagStrictNulsLast ==
  /\ TagIsStrict
  /\ (fn_out.called /\ WellFormed(fn_in.datagram, fn_in.expected_prefix)
        /\ NulsLast(fn_in.datagram))
       => fn_out.res = "Ok" /\ fn_out.decoded

\* C21's case: a datagram with the expected tag and a body, ended by a
\* newline and a NUL, was decoded.
C21_Witness ==
  /\ fn_out.called
  /\ fn_in.datagram = fn_in.expected_prefix \o <<SP>> \o JsonObject \o <<NL, NUL>>
  /\ fn_out.res = "Ok"

\* C21: tag strictness: with expected tag X, a datagram whose first
\* whitespace-delimited token Y differs from X and is not ERROR fails with
\* ReceiveExpectationNotMet(X, Y) and decodes no body; when the token equals
\* X the body is decoded regardless of trailing NULs, newline or other
\* trailing whitespace.
C21_TagStrictTrailLenient ==
  /\ TagIsStrict
  /\ (fn_out.called /\ WellFormed(fn_in.datagram, fn_in.expected_prefix))
       => fn_out.res = "Ok" /\ fn_out.decoded

(***************************************************************************)
(* Properties of the output path (checked under SpecOutFile).              *)
(***************************************************************************)
\* C22: when no output file is given, the output path equals the final
\* '/'-separated segment of the offered file_name: it is what follows the
\* last '/' of file_name (all of it when there is none), so it contains no
\* '/'; '../e' gives 'e' and '/./e' gives 'e'.
C22_OutputIsFinalSegment ==
  (fn_out.called /\ ~fn_in.out_file.some)
    => LET name == fn_in.file_name
           path == fn_out.out_file_name
       IN /\ \A i \in 1..Len(path) : path[i] # "/"
          /\ \E k \in 0..Len(name) :
               /\ path = SubSeq(name, k + 1, Len(name))
               /\ k = 0 \/ name[k] = "/"

\* C22's case: the offered name '../e' gave the output path 'e'.
C22_Witness ==
  /\ fn_out.called
  /\ ~fn_in.out_file.some
  /\ fn_in.file_name = <<".", ".", "/", "e">>
  /\ fn_out.out_file_name = <<"e">>

(***************************************************************************)
(* Properties of the passphrase minter (checked under SpecMinter).         *)
(***************************************************************************)
\* The words of the list.
Words == {WordList[i] : i \in 1..Len(WordList)}

\* C23: generate_with_count(n) returns no passphrase when n = 0, and for
\* n >= 1 returns a passphrase made of exactly n words of the word list
\* joined by '-' (cut at its '-' characters it gives n pieces, each a word of
\* the list, so it holds n - 1 separators); generate() is
\* generate_with_count(3).
C23_PassphraseHasCountWords ==
  fn_out.called
    => LET n == IF fn_in.fn = "generate" THEN 3 ELSE fn_in.word_count
           pieces == Split(fn_out.ret.value, "-")
       IN IF n = 0 THEN ~fn_out.ret.some
          ELSE /\ fn_out.ret.some
               /\ Len(pieces) = n
               /\ \A i \in 1..n : pieces[i] \in Words
               /\ Cardinality({k \in 1..Len(fn_out.ret.value) :
                                 fn_out.ret.value[k] = "-"}) = n - 1

\* C23's case: generate() has returned three words joined by two '-'.
C23_Witness ==
  /\ fn_out.called
  /\ fn_in.fn = "generate"
  /\ fn_out.ret.some
  /\ fn_out.ret.value = <<"b", "c", "-", "a", "-", "d">>

\* The acknowledgments among the datagrams a step sent.
AcksSent(sent) == {sent[i] : i \in {k \in 1..Len(sent) : sent[k].kind = Acknowledgment}}

WaitReceives ==
  /\ InWait
  /\ r2s # <<>>
  /\ r2s' = Tail(r2s)
  /\ faults' = faults
  /\ held' = held

\* The wait receives an acknowledgment: a 3-byte datagram of kind ACK.
WaitReceivesAck ==
  /\ WaitReceives
  /\ DatagramLen(Head(r2s)) = 3
  /\ Head(r2s).kind = Acknowledgment

\* C25 (effect): an ACK for another sequence removes only that entry from
\* unacked and the wait continues; an ACK for the just-sent sequence ends
\* the wait and clears unacked.
AckRemovesOrEnds ==
  WaitReceivesAck
    => IF Head(r2s).seq # wait.packet_index
       THEN /\ last_transmitted' = MapRemove(last_transmitted, Head(r2s).seq)
            /\ snd_pc' = snd_pc
            /\ wait' = wait
       ELSE /\ last_transmitted' = EmptyMap
            /\ snd_pc' # snd_pc
            /\ wait' = NoWait

\* C25 (delivery): when an ACK for the just-sent sequence ends the wait,
\* the receiver has delivered every datagram sent so far, the just-sent one
\* included.
AckedMeansDelivered ==
  (WaitReceivesAck /\ Head(r2s).seq = wait.packet_index)
    => received_packets_count >= sent_packets_count

\* C25: in the acknowledgment wait an ACK for a sequence other than the
\* just-sent one removes only that entry from unacked and the wait
\* continues; an ACK for the just-sent sequence ends the wait and clears
\* unacked, and at that moment every datagram that was in unacked has
\* already been delivered by the receiver.
C25_AckClearsDelivered == [][AckRemovesOrEnds /\ AckedMeansDelivered]_vars

\* C25, the effect alone.
C25_AckEffect == [][AckRemovesOrEnds]_vars

\* C26 (step): an ACK whose sequence is not in unacked and is not the
\* just-sent one changes neither send_seq nor unacked, sends nothing and
\* does not end the wait.
LateAckIsIgnored ==
  (/\ WaitReceivesAck
   /\ Head(r2s).seq \notin DOMAIN last_transmitted
   /\ Head(r2s).seq # wait.packet_index)
    => /\ sent_packets_count' = sent_packets_count
       /\ last_transmitted' = last_transmitted
       /\ s2r' = s2r
       /\ snd_pc' = snd_pc
       /\ wait' = wait
       /\ ev'.sent = <<>>

\* C26 (state): once an ACK has been processed and the wait goes on, its
\* sequence is not in unacked, so that a duplicate of it processed in the
\* same wait is an ACK of the kind above.
AckedIsForgotten ==
  (/\ InWait
   /\ ev.op = "wait_recv"
   /\ RecvAck(ev.dg) = 3
   /\ ev.dg.kind = Acknowledgment)
    => ev.dg.seq \notin DOMAIN last_transmitted

\* C26: idempotent acks.  Processing a duplicate ACK, or a late ACK for a
\* sequence no longer in unacked and different from the just-sent sequence,
\* leaves the sender's send_seq and unacked unchanged, sends nothing and
\* does not end the wait.
C26_LateAcksAreIgnored == [][LateAckIsIgnored]_vars /\ []AckedIsForgotten

\* C26's case: in the wait of end(), after the earlier wait has cleared
\* unacked, the ACK of an earlier WRITE has arrived and the wait goes on with
\* the END alone in unacked.
C26_Witness ==
  /\ snd_pc = "end"
  /\ sent_packets_count = 4
  /\ ev.op = "wait_recv"
  /\ ev.dg = Datagram(1, Acknowledgment, <<>>)
  /\ ev.ret = "continue"
  /\ wait.packet_index = 0
  /\ last_transmitted = MapInsert(EmptyMap, 0, Datagram(0, EndSession, <<>>))

\* The wait receives a resend request: a 3-byte datagram of kind RESEND.
WaitReceivesResend ==
  /\ WaitReceives
  /\ DatagramLen(Head(r2s)) = 3
  /\ Head(r2s).kind = ResendRequest

\* C27 (step): a RESEND for sequence q sends the stored datagram unacked[q]
\* again, unchanged, when q is in unacked and sends nothing when it is not;
\* send_seq and unacked are unchanged and the wait continues.
ResendSendsStored ==
  WaitReceivesResend
    => /\ s2r' = IF Head(r2s).seq \in DOMAIN last_transmitted
                 THEN Append(s2r, last_transmitted[Head(r2s).seq])
                 ELSE s2r
       /\ sent_packets_count' = sent_packets_count
       /\ last_transmitted' = last_transmitted
       /\ snd_pc' = snd_pc
       /\ wait' = wait

\* C27: in the acknowledgment wait a RESEND for sequence q causes the
\* byte-identical stored datagram unacked[q] to be sent again if q is in
\* unacked and nothing to be sent if it is not; in both cases send_seq and
\* unacked are unchanged and the wait continues, however many RESENDs arrive.
C27_ResendSendsStored == [][ResendSendsStored]_vars

\* C27's case: a RESEND for a sequence that is no longer in unacked has been
\* received in a wait that still stores the just-sent datagram; nothing was
\* sent and the wait goes on.
C27_Witness ==
  /\ InWait
  /\ ev.op = "wait_recv"
  /\ ev.dg.kind = ResendRequest
  /\ ev.sent = <<>>
  /\ ev.dg.seq \notin DOMAIN last_transmitted
  /\ wait.packet_index \in DOMAIN last_transmitted

(***************************************************************************)
(* The end of a session: the data path on files of at most one chunk,      *)
(* with the scheduling the code has.  Both peers run their loops, so a     *)
(* datagram that has arrived is received; and the clock advances while     *)
(* the wait of end() sees its recv time out second after second, so the    *)
(* 5 s test is eventually met.                                             *)
(***************************************************************************)
InitEnd ==
  /\ InitRdt
  /\ Len(src_file) <= 1
  /\ chunk_size = [send |-> 1, get |-> 1]

\* The timed-out iteration of the wait of end() in which it gives up.
EndGivesUp == SndTimeout /\ snd_pc = "end" /\ snd_pc' = "done"

FairEnd == WF_vars(SndRecv) /\ WF_vars(RcvRecv) /\ WF_vars(EndGivesUp)

SpecEnd == InitEnd /\ [][NextRdt]_vars /\ FairEnd

(***************************************************************************)
(* Properties of end() (checked under SpecEnd).                            *)
(***************************************************************************)
\* C28 (emission): end() emits one zero-length END datagram carrying the
\* sequence of the counter, which it increments by one, and waits for its
\* ACK with exit_on_lost set.
EndEmitsOneEnd ==
  (snd_pc = "send_file" /\ snd_pc' \in {"end", "done"})
    => /\ s2r' = Append(s2r, Datagram(AsU16(sent_packets_count), EndSession, <<>>))
       /\ sent_packets_count' = sent_packets_count + 1
       /\ snd_pc' = "end"
       /\ wait' = [packet_index |-> AsU16(sent_packets_count),
                   exit_on_lost |-> TRUE, elapsed |-> 0]

\* C28 (wait): the wait of end() consumes no further sequence number, sends
\* only datagrams stored in unacked, and ends only on the ACK of the END or
\* on a recv that timed out more than 5 s after the wait began.
EndWaitsForAck ==
  snd_pc = "end"
    => /\ sent_packets_count' = sent_packets_count
       /\ (Len(s2r') > Len(s2r) /\ held' = held)
            => \E q \in DOMAIN last_transmitted : s2r' = Append(s2r, last_transmitted[q])
       /\ snd_pc' # "end"
            => /\ snd_pc' = "done"
               /\ \/ /\ WaitReceivesAck
                     /\ Head(r2s).seq = wait.packet_index
                  \/ /\ r2s = <<>>
                     /\ ev'.op = "wait_timeout"
                     /\ ev'.elapsed >= After5s

\* C28 (return): once in its wait, end() eventually returns.
EndReturns == (snd_pc = "end") ~> (snd_pc = "done")

\* C28: end() emits exactly one zero-length END datagram consuming one
\* sequence number, waits for its ACK with exit_on_lost set, and returns the
\* socket once its recv has timed out 5 s after the wait began; so end()
\* eventually returns when the peer stops sending datagrams, even if the END
\* is never acknowledged.
C28_EndReturns == [][EndEmitsOneEnd /\ EndWaitsForAck]_vars /\ EndReturns

\* C28's case: end() has returned without an acknowledgment, its END having
\* been lost, after more than 5 s.
C28_Witness ==
  /\ snd_pc = "done"
  /\ ev.op = "wait_timeout"
  /\ ev.ret = "gave_up"
  /\ ev.elapsed >= After5s
  /\ EndSession \in faults.lost
  /\ rcv_pc = "read"

(***************************************************************************)
(* Properties of the wait without exit_on_lost (checked under SpecApi).    *)
(***************************************************************************)
\* A timed-out iteration of a wait without exit_on_lost.
PlainWaitTimesOut ==
  /\ snd_pc = "write_and_flush"
  /\ ev'.op = "wait_timeout"
  /\ r2s = <<>>
  /\ r2s' = r2s
  /\ faults' = faults
  /\ held' = held
  /\ last_transmitted' = last_transmitted
  /\ sent_packets_count' = sent_packets_count

\* C29 (probe): when the recv times out more than 10 s after the timer was
\* started, the just-sent datagram is sent again once and the timer is
\* reset; before that nothing is sent.
ProbeResends ==
  PlainWaitTimesOut
    => IF ev'.elapsed >= After10s /\ wait.packet_index \in DOMAIN last_transmitted
       THEN /\ s2r' = Append(s2r, last_transmitted[wait.packet_index])
            /\ wait' = [wait EXCEPT !.elapsed = 0]
            /\ snd_pc' = snd_pc
       ELSE s2r' = s2r

\* C29 (exit): the wait ends without an ACK of the just-sent sequence only
\* if the just-sent datagram is no longer in unacked.
ExitsOnlyIfForgotten ==
  (snd_pc = "write_and_flush" /\ snd_pc' # snd_pc)
    => \/ WaitReceivesAck /\ Head(r2s).seq = wait.packet_index
       \/ wait.packet_index \notin DOMAIN last_transmitted

\* C29 (delivery): when the wait ends, the receiver has delivered every
\* datagram sent so far, the just-sent one included.
PlainWaitEndsDelivered ==
  (snd_pc = "write_and_flush" /\ snd_pc' # snd_pc)
    => received_packets_count >= sent_packets_count

\* C29: in an acknowledgment wait without exit_on_lost, if no datagram
\* arrives for 10 s the just-sent datagram is re-sent once and the timer is
\* reset, repeatedly; the wait exits without an ACK only if that datagram is
\* no longer in unacked; and the wait ends with every sequence up to the
\* just-sent one delivered.
C29_WaitEndsDelivered ==
  [][ProbeResends /\ ExitsOnlyIfForgotten /\ PlainWaitEndsDelivered]_vars

\* C29, the probe and the exit alone.
C29_ProbeAndExit == [][ProbeResends /\ ExitsOnlyIfForgotten]_vars

(***************************************************************************)
(* The data path on a channel that also carries datagrams that are not     *)
(* the transport's.                                                        *)
(***************************************************************************)
NextNoise == NextRdt \/ NetNoise

SpecNoise == InitEnd /\ [][NextNoise]_vars

(***************************************************************************)
(* Properties of the handling of noise (checked under SpecNoise).          *)
(***************************************************************************)
\* read() receives the datagram at the head of the receiver's queue.
ReadReceives ==
  /\ rcv_pc = "read"
  /\ s2r # <<>>
  /\ s2r' = Tail(s2r)
  /\ faults' = faults
  /\ held' = held

\* Nothing of the transport changes apart from the queue read from, nothing
\* is sent and no operation ends.
TransportUnchanged ==
  /\ received_packets_count' = received_packets_count
  /\ sent_packets_count' = sent_packets_count
  /\ last_transmitted' = last_transmitted
  /\ Len(s2r') <= Len(s2r)
  /\ Len(r2s') <= Len(r2s)
  /\ ev'.sent = <<>>
  /\ snd_pc' = snd_pc
  /\ wait' = wait
  /\ rcv_pc' = rcv_pc
  /\ out_file' = out_file

\* C30 (read): a datagram shorter than 3 bytes received by read() changes
\* nothing.
ReadIgnoresShort ==
  (ReadReceives /\ DatagramLen(Head(s2r)) < 3) => TransportUnchanged

\* C30 (wait, short or of another kind): a datagram shorter than 3 bytes, or
\* of 3 bytes with a kind that is neither ACK nor RESEND, received in the
\* acknowledgment wait changes nothing.
WaitIgnoresShortOrOtherKind ==
  (/\ WaitReceives
   /\ \/ DatagramLen(Head(r2s)) < 3
      \/ DatagramLen(Head(r2s)) = 3
           /\ Head(r2s).kind \notin {Acknowledgment, ResendRequest})
    => TransportUnchanged

\* C30 (wait, any length but 3): a datagram whose length is not exactly 3
\* received in the acknowledgment wait changes nothing.
WaitIgnoresOtherLength ==
  (WaitReceives /\ DatagramLen(Head(r2s)) # 3) => TransportUnchanged

\* C30: noise tolerance.  A datagram shorter than 3 bytes received by
\* read(), and a datagram whose length is not exactly 3 or whose kind is
\* neither ACK nor RESEND received in the acknowledgment wait, changes none
\* of recv_seq, send_seq and unacked, causes nothing to be sent and does not
\* end the operation.
C30_NoiseChangesNothing ==
  [][ReadIgnoresShort /\ WaitIgnoresShortOrOtherKind /\ WaitIgnoresOtherLength]_vars

\* C30, for datagrams of at most 3 bytes alone.
C30_ShortNoiseChangesNothing ==
  [][ReadIgnoresShort /\ WaitIgnoresShortOrOtherKind]_vars

(***************************************************************************)
(* Properties of the sequence wrap (checked under SpecRdt).                *)
(***************************************************************************)
\* C31 (sender): the datagram that follows the one with the last sequence
\* before the wrap carries sequence 0, and is sent only after the wait for
\* the ACK of that sequence has ended and cleared unacked.
SenderWraps ==
  (/\ sent_packets_count' # sent_packets_count
   /\ sent_packets_count > 0
   /\ AsU16(sent_packets_count - 1) = SeqMod - 1)
    => /\ ev'.dg.seq = 0
       /\ s2r' = Append(s2r, ev'.dg)
       /\ last_transmitted = EmptyMap

\* C31 (receiver): the expected sequence after the delivery of the last
\* sequence before the wrap is 0.
ReceiverWraps ==
  (/\ received_packets_count' # received_packets_count
   /\ AsU16(received_packets_count) = SeqMod - 1)
    => AsU16(received_packets_count') = 0

\* C31 (order): what the receiver has been handed is the beginning of what
\* the sender wrote, also once more datagrams than there are sequence
\* numbers have been sent.
DeliveredInOrder ==
  SameChunkSize
    => /\ Len(out_file) <= Len(src_file)
       /\ out_file = SubSeq(src_file, 1, Len(out_file))

\* C31: sequence numbers wrap: the datagram following the last sequence
\* carries sequence 0 and the receiver's expected sequence after delivering
\* the last sequence is 0; the sender waits for the ACK of the last sequence
\* before sending the next datagram, and a transfer of more datagrams than
\* there are sequence numbers continues to be delivered in order across the
\* wrap.
C31_InOrderAcrossWrap == [][SenderWraps /\ ReceiverWraps]_vars /\ []DeliveredInOrder

\* C31, the arithmetic of the wrap alone.
C31_WrapArithmetic == [][SenderWraps /\ ReceiverWraps]_vars

\* C31, the order on a channel that only loses datagrams.
C31_InOrderWithoutCopies ==
  (faults.dup = 0 /\ faults.delay = 0) => DeliveredInOrder

(***************************************************************************)
(* Properties of the relay's session table (checked under SpecRelay).      *)
(***************************************************************************)
\* The datagram served is an S2X_RP.
ServesRP(r) == r.dg.utf8 /\ r.dg.tag = "S2X_RP"

\* The datagram served is an R2X_RSC that quotes a passphrase.
ServesRSC(r) ==
  r.dg.utf8 /\ r.dg.tag = "R2X_RSC" /\ "passphrase" \in DOMAIN r.dg.body

\* C32 (changes): the table changes only by the insertion of one entry when
\* an S2X_RP is handled, or by the removal of one entry when an R2X_RSC with
\* a live passphrase and the matching hash is handled.
TableChangesByOfferOrClaim ==
  client_map' # client_map
    => \/ /\ ServesRP(req')
          /\ \E p \in DOMAIN client_map' :
               /\ client_map' = MapInsert(client_map, p, client_map'[p])
               /\ client_map'[p].sender_addr = req'.addr
       \/ /\ ServesRSC(req')
          /\ req'.dg.body.passphrase \in DOMAIN client_map
          /\ client_map[req'.dg.body.passphrase].file_hash = req'.dg.body.file_hash
          /\ client_map' = MapRemove(client_map, req'.dg.body.passphrase)

\* C32 (frame): a step in which time passes, or that serves an R2X_RFI, an
\* unknown tag, a malformed body, an unknown passphrase or an R2X_RSC with
\* the wrong hash, leaves the table as it was.
TableOtherwiseKept ==
  (\/ ~req'.dg.utf8
   \/ req'.dg.tag \notin {"S2X_RP", "R2X_RSC"}
   \/ req'.dg.rest # "json"
   \/ ServesRSC(req')
        /\ \/ req'.dg.body.passphrase \notin DOMAIN client_map
           \/ "file_hash" \notin DOMAIN req'.dg.body
           \/ client_map[req'.dg.body.passphrase].file_hash # req'.dg.body.file_hash)
    => client_map' = client_map

\* C32: the relay's session table changes only by insertion of one entry
\* when an S2X_RP is handled and by removal of one entry when an R2X_RSC with
\* live passphrase and matching hash is handled; the passage of time,
\* R2X_RFI, unknown tags, malformed bodies, unknown passphrases and
\* hash-mismatching R2X_RSC all leave the table exactly as it was.
C32_TableFrame == [][TableChangesByOfferOrClaim /\ TableOtherwiseKept]_vars

\* C32's case: an R2X_RSC quoting a live passphrase with the wrong hash has
\* been refused after time has passed, and the offer made earlier is still in
\* the table.
C32_Witness ==
  /\ ServesRSC(req)
  /\ req.dg.rest = "json"
  /\ req.dg.body.passphrase \in DOMAIN client_map
  /\ "file_hash" \in DOMAIN req.dg.body
  /\ client_map[req.dg.body.passphrase].file_hash # req.dg.body.file_hash
  /\ client_map[req.dg.body.passphrase].created_at < now
  /\ Len(replies) = 1
  /\ replies[1].tag = "ERROR"

(***************************************************************************)
(* Properties of the end of the stream (checked under SpecRdt).            *)
(***************************************************************************)
\* C33: read() reports the end of the stream (returns 0 bytes because of an
\* END datagram) only when the END's sequence equals the expected sequence,
\* that is only after every WRITE sent before the END has been delivered; an
\* END that arrives while an earlier sequence is missing does not end the
\* stream.
C33_EndOnlyInOrder ==
  (ev.op = "read" /\ ev.ret = "eof" /\ ev.dg.kind = EndSession)
    => /\ ev.dg.seq = ev.recv_seq
       /\ SameChunkSize => Len(out_file) = Len(src_file)

(***************************************************************************)
(* Properties of the transmissions of END (checked under SpecRdt).         *)
(***************************************************************************)
\* C34 (probe): in the wait of end() a recv that timed out never sends
\* anything: the give-up after 5 s is taken before the re-send after 10 s.
EndWaitNeverProbes ==
  (/\ snd_pc = "end"
   /\ ev'.op = "wait_timeout"
   /\ r2s = <<>>
   /\ held' = held
   /\ faults' = faults)
    => /\ s2r' = s2r
       /\ ev'.ret \in {"continue", "gave_up"}
       /\ ev'.elapsed >= After5s => snd_pc' = "done"

\* C34 (transmissions): the sender puts an END on the channel only in end()
\* itself, once, and in its wait in response to a RESEND naming the END's
\* sequence.
EndSentOnceOrOnResend ==
  (/\ held' = held
   /\ Len(s2r') > Len(s2r)
   /\ s2r'[Len(s2r')].kind = EndSession)
    => \/ /\ snd_pc = "send_file"
          /\ snd_pc' = "end"
          /\ sent_packets_count' = sent_packets_count + 1
       \/ /\ snd_pc = "end"
          /\ WaitReceivesResend
          /\ Head(r2s).seq = s2r'[Len(s2r')].seq
          /\ Head(r2s).seq = wait.packet_index

\* An END is on its way to the receiver.
EndInFlight ==
  \/ \E i \in 1..Len(s2r) : s2r[i].kind = EndSession
  \/ \E h \in held : h.ch = "s2r" /\ h.dg.kind = EndSession

\* C34 (loss): the receiver's loop ends on an END only by receiving one from
\* the channel, and once no END is on the channel (the single END was lost)
\* one appears there again only when the sender answers a RESEND naming the
\* END's sequence; so without such a RESEND the receiver never gets an END.
LostEndIsNeverSeen ==
  /\ (rcv_pc = "read" /\ rcv_pc' = "done")
       => s2r # <<>> /\ Head(s2r).kind = EndSession /\ s2r' = Tail(s2r)
  /\ (sent_packets_count' = sent_packets_count /\ ~EndInFlight /\ EndInFlight')
       => /\ snd_pc = "end"
          /\ WaitReceivesResend
          /\ Head(r2s).seq = wait.packet_index

\* C34: the END datagram is sent on the sender's own initiative exactly
\* once: during end() the 10 s re-send probe never fires because the 5 s
\* give-up is taken first, so END is transmitted again only in response to a
\* RESEND naming its sequence; if the single END is lost and no RESEND for it
\* arrives, the receiver never gets an END.
C34_EndSentOnce ==
  [][EndWaitNeverProbes /\ EndSentOnceOrOnResend /\ LostEndIsNeverSeen]_vars

\* C34's case: the END was lost, end() has given up and returned, and the
\* receiver, which has every chunk, is still in read().
C34_Witness ==
  /\ snd_pc = "done"
  /\ rcv_pc = "read"
  /\ faults = [NoFaults EXCEPT !.drop = 1, !.lost = {EndSession}]
  /\ Len(src_file) >= 1
  /\ out_file = src_file
  /\ s2r = <<>>
  /\ r2s = <<>>

(***************************************************************************)
(* Properties of the hole punch against the data stream (checked under     *)
(* SpecPunch).                                                             *)
(***************************************************************************)
\* Peer p, in one of its drain loops, receives the datagram at the head of
\* its socket's queue.
DrainReceives(p) ==
  /\ peer[p].pc \in Drains
  /\ inbox[p] # <<>>
  /\ inbox'[p] = Tail(inbox[p])

\* C35: no datagram of the RDT is consumed by the hole punch: when one peer
\* has finished init_socket and sends WRITE/END datagrams while the other is
\* still in one of its drain loops, the drain loops do not read and discard
\* them, so the first datagrams of the stream are still there for read().
C35_DrainsLeaveStream ==
  [][\A p \in Peers : DrainReceives(p) => Head(inbox[p]) < 3]_vars


(***************************************************************************)
(* The hole punch with its scheduling: a send returns within the 1 s write *)
(* timeout and a recv within the 1 s read timeout, so a peer that can take *)
(* its next step takes it.  A driver that has init_socket's Ok goes on.    *)
(***************************************************************************)
HpStep(p) == SendPackets(p) \/ HpRecv(p) \/ HpRecvFails(p) \/ SendSync(p) \/ OpenRdt(p)

FairPunch == \A p \in Peers : WF_vars(HpStep(p))

SpecPunchFair == InitPunch /\ [][NextPunch]_vars /\ FairPunch

\* init_socket is over for peer p: it has returned, or the thread has
\* panicked in it.
InitSocketOver(p) == peer[p].pc \in {"returned", "rdt", "exit", "panicked"}

\* C36: when both peers run the hole punch against each other, init_socket
\* terminates on both of them whatever datagrams are lost: every drain ends
\* by a read timeout or by a datagram of the other length.
C36_InitSocketTerminates == <>(\A p \in Peers : InitSocketOver(p))


(***************************************************************************)
(* Properties of the brokering (checked under SpecRelay).  handed_off is   *)
(* the set of passphrases whose latest offer has had its X2S_SCON.         *)
(***************************************************************************)
\* The X2S_SCON datagrams among sends.
Connects(sends) == {i \in 1..Len(sends) : sends[i].tag = "X2S_SCON"}

\* C37 (emission): an X2S_SCON is sent only while an R2X_RSC is served that
\* quotes a live passphrase with the offer's hash; it is the one datagram
\* sent, it goes to the offer's sender, this offer has had no X2S_SCON
\* before, and the offer is consumed with it.
ConnectOncePerOffer ==
  Connects(replies') # {}
    => /\ IsRSC(req')
       /\ req'.dg.body.passphrase \in DOMAIN client_map
       /\ client_map[req'.dg.body.passphrase].file_hash = req'.dg.body.file_hash
       /\ req'.dg.body.passphrase \notin handed_off
       /\ Len(replies') = 1
       /\ replies'[1].to = client_map[req'.dg.body.passphrase].sender_addr
       /\ req'.dg.body.passphrase \notin DOMAIN client_map'

\* C37 (race): the R2X_RSC served next after a brokered R2X_RSC for the same
\* passphrase is refused with "ERROR Passphrase not found", whoever sent it.
SecondClaimRefused ==
  (/\ IsRSC(req) /\ Connects(replies) # {}
   /\ IsRSC(req') /\ req'.dg.body.passphrase = req.dg.body.passphrase)
    => replies' = NotFoundTo(req') /\ client_map' = client_map

\* C37: for every offer the relay admitted at most one X2S_SCON is sent to
\* its sender, and only on an R2X_RSC quoting the offer's passphrase with a
\* matching hash; of two receivers racing with R2X_RSC for one passphrase
\* exactly one is brokered and the other is refused.
C37_OneConnectPerOffer == [][ConnectOncePerOffer /\ SecondClaimRefused]_vars

\* C37's case: a second receiver's R2X_RSC for a passphrase that was just
\* handed off to another one has been refused.
C37_Witness ==
  /\ IsRSC(req)
  /\ req.addr = "a2"
  /\ req.dg.body.passphrase \in handed_off
  /\ req.dg.body.passphrase \notin DOMAIN client_map
  /\ replies = NotFoundTo(req)


(***************************************************************************)
(* Termination of the receiver (checked under SpecEnd).  In read() a recv  *)
(* that ends in the read timeout is `Err(_) => continue`: it changes       *)
(* nothing, so a receiver with nothing to receive stays where it is.       *)
(***************************************************************************)
\* The sender's run is over and the network holds no datagram back: nothing
\* more than what is queued will reach the receiver.
SenderOver == snd_pc \notin {"send_file", "write_and_flush", "end"} /\ held = {}

\* C38: every run of the receiver's driver terminates: a receiver to which
\* the sender sends nothing (any more) returns, with an error, instead of
\* staying in read() forever.
C38_ReceiverReturns == SenderOver ~> (rcv_pc # "read")


(***************************************************************************)
(* The size of what read() hands over (checked under SpecRdt).             *)
(***************************************************************************)
\* C39: for every accepted in-order WRITE the number of bytes read() reports
\* and hands to its caller is the number of payload bytes the sender passed
\* to write_and_flush for that sequence, whatever the chunk sizes of the two
\* peers are (a receiver buffer smaller than the sender's chunk included).
C39_ReadHandsWholePayload ==
  (ev.op = "read" /\ ev.ret = "data" /\ ev.dg.kind = Write)
    => /\ ev.dg.seq = ev.recv_seq
       /\ Len(ev.data) = Len(ev.dg.data)

=============================================================================
